---- MODULE Spec2Model ----
(***************************************************************************)
(* Safety IO Tester: the serial line protocol, the simulated controller    *)
(* (mock_serial_port.py: MockSerialPort with threading.Timer callbacks)    *)
(* and the host-side driver (model.py: Model and the MockSerialPort it     *)
(* instantiates).                                                          *)
(*                                                                         *)
(* Bytes are one-character strings, frames are sequences of them.  Python  *)
(* index i of a sequence is TLA+ index i+1 (operator At).  A dual-channel  *)
(* pin is a pair <<a, b>>: Python [0] is [1] here, Python [1] is [2].      *)
(*                                                                         *)
(* Threads of the simulator: the command path (the caller of write/read)   *)
(* and one thread per started threading.Timer.  No lock guards             *)
(* _pin_states, so every load and every store of a _pin_states entry that  *)
(* another thread may write is a step of its own.                          *)
(***************************************************************************)
EXTENDS Integers, Sequences, FiniteSets, Bags, TLC

\* ------------------------------------------------------------------ bounds
\* Timer threads of one signal (estop, interlock) that may be alive at once: a
\* delayed frame is accepted by the model only while its signal has fewer.
MaxTimers == 2
\* Largest delay, in ms, a delayed frame of the model carries.
MaxDelay == 1
\* Polls View.after may hold at once: a connect is taken by the model only
\* while fewer are scheduled.
MaxScheduled == 2

\* ------------------------------------------------------- program constants
HEARTBEAT_LOW == 5
HEARTBEAT_HIGH == 15

\* ------------------------------------------------------------------- bytes
At(s, i) == s[i + 1]

\* s[lo:hi] of Python, for 0 <= lo <= hi
Slice(s, lo, hi) == SubSeq(s, lo + 1, IF hi > Len(s) THEN Len(s) ELSE hi)

IsSpace(c) == c \in {" ", "\n", "\t", "\r"}

RECURSIVE LStrip(_)
LStrip(s) == IF s # <<>> /\ IsSpace(Head(s)) THEN LStrip(Tail(s)) ELSE s

RECURSIVE RStrip(_)
RStrip(s) ==
    IF s # <<>> /\ IsSpace(s[Len(s)]) THEN RStrip(SubSeq(s, 1, Len(s) - 1)) ELSE s

\* str.strip()
Strip(s) == LStrip(RStrip(s))

DigitChars == <<"0", "1", "2", "3", "4", "5", "6", "7", "8", "9">>

IsDigit(c) == \E d \in 1..10 : DigitChars[d] = c

DigitVal(c) == (CHOOSE d \in 1..10 : DigitChars[d] = c) - 1

\* str(d) for one decimal digit
DigitStr(d) == DigitChars[d + 1]

AllDigits(s) == s # <<>> /\ \A i \in 1..Len(s) : IsDigit(s[i])

\* int(s) for a string of decimal digits
RECURSIVE ParseInt(_)
ParseInt(s) ==
    IF s = <<>> THEN 0
    ELSE 10 * ParseInt(SubSeq(s, 1, Len(s) - 1)) + DigitVal(s[Len(s)])

\* chr(data[i]) == "1"
Bit(c) == c = "1"

\* str(int(b)) for a bool
BitStr(b) == IF b THEN "1" ELSE "0"

\* f"{n:05d}"
Format05d(n) ==
    <<DigitStr((n \div 10000) % 10), DigitStr((n \div 1000) % 10),
      DigitStr((n \div 100) % 10), DigitStr((n \div 10) % 10), DigitStr(n % 10)>>

\* ------------------------------------------------------------- pin states
PinNames ==
    {"mode1", "mode2", "estop", "interlock", "stop", "teach", "heartbeat", "power"}

DefaultPinStates ==
    [mode1 |-> <<FALSE, TRUE>>, mode2 |-> <<TRUE, FALSE>>,
     estop |-> <<TRUE, TRUE>>, interlock |-> <<TRUE, TRUE>>,
     stop |-> <<TRUE, TRUE>>, teach |-> <<FALSE, FALSE>>,
     heartbeat |-> <<FALSE, FALSE>>, power |-> <<TRUE, TRUE>>]

\* the 19 bytes of a status response
EncodePins(p) ==
    <<"A", BitStr(p.mode1[1]), BitStr(p.mode2[1]), BitStr(p.estop[1]),
      BitStr(p.interlock[1]), BitStr(p.stop[1]), BitStr(p.teach[1]),
      BitStr(p.heartbeat[1]), BitStr(p.power[1]),
      "B", BitStr(p.mode1[2]), BitStr(p.mode2[2]), BitStr(p.estop[2]),
      BitStr(p.interlock[2]), BitStr(p.stop[2]), BitStr(p.teach[2]),
      BitStr(p.heartbeat[2]), BitStr(p.power[2]), "\n">>

\* f"A{heartbeat_a:05d}B{heartbeat_b:05d}"
\* a response with the two readings in each other's place
EncodeHeartbeatValuesSwapped(a, b) == <<"A">> \o Format05d(b) \o <<"B">> \o Format05d(a)

EncodeHeartbeatValues(a, b) == <<"A">> \o Format05d(a) \o <<"B">> \o Format05d(b)

OK_RESPONSE == <<"O", "K", "\n">>

\* ------------------------------------------------------------------ frames
Bits == {"0", "1"}
Channels == {"A", "B"}
Delays == 0..MaxDelay

\* E<a><b> or I<a><b>
ImmediateFrames(letter) == {<<letter, a, b>> : a \in Bits, b \in Bits}

\* E<a><b><first><ddddd> or I<a><b><first><ddddd>
DelayedFrames(letter) ==
    {<<letter, a, b, c>> \o Format05d(d) :
        a \in Bits, b \in Bits, c \in Channels, d \in Delays}

\* E or I frames that are not well formed: a wrong length, a first channel
\* that is neither A nor B
MalformedFrames(letter) ==
    {<<letter, "1">>, <<letter, "1", "1", "A">>,
     <<letter, "1", "0", "C">> \o Format05d(0)}

ModeFrames == {<<"M", a1, a2, b1, b2>> : a1 \in Bits, a2 \in Bits, b1 \in Bits, b2 \in Bits}

PowerFrames == {<<"P", on>> : on \in Bits}

EchoFrames == {<<"S", "h", "i", "\n">>, <<"S", "\n">>}

UnknownFrames == {<<"X">>, <<"Q", "1">>}

\* ---------------------------------------------------------------- state
VARIABLES
    \* mock_serial_port.py: MockSerialPort
    is_open,                \* self.is_open
    _expect_ok,             \* self._expect_ok
    _read_requested,        \* self._read_requested
    _heartbeat_requested,   \* self._heartbeat_requested
    _pin_states,            \* self._pin_states
    timers,                 \* the bag of live threading.Timer threads
    cmd,                    \* the command path: where it is in write(), its locals
    response,               \* what the last read() returned
    raised,                 \* the exception the last write()/read() raised, or "none"
    stdout,                 \* the last line written to sys.stdout, or <<>>
    \* model.py: Model
    serial,                 \* self.serial, the port object and its fields
    output_pin_states,      \* self.output_pin_states
    result,                 \* how the last call of a Model method ended
    \* view.py: View
    lbl_status,             \* the text of Serial_Connect_Panel.lbl_status
    scheduled               \* the callbacks View.after holds: polls not yet run

simvars ==
    <<is_open, _expect_ok, _read_requested, _heartbeat_requested, _pin_states,
      timers, cmd, response, raised, stdout>>

drvvars == <<serial, output_pin_states, result>>

guivars == <<lbl_status, scheduled>>

vars == <<simvars, drvvars, guivars>>

\* A started timer thread.  Its record keeps only what the thread still uses:
\* its interval until the callback starts, its arguments until the callback
\* has stored them.
\* superseded is history, kept for the claims: a newer frame for the thread's
\* signal was applied while its transition was pending.
NewTimer(sig, channel, state, delay_ms) ==
    [pc |-> "waiting", sig |-> sig, channel |-> channel, state |-> state,
     delay |-> delay_ms, elapsed |-> 0, tmp |-> FALSE, tmp2 |-> FALSE,
     superseded |-> FALSE]

\* a thread inside _update_stop_pin_state
Updating(pc, tmp, tmp2) ==
    [pc |-> pc, sig |-> "estop", channel |-> "A", state |-> FALSE,
     delay |-> 0, elapsed |-> 0, tmp |-> tmp, tmp2 |-> tmp2,
     superseded |-> FALSE]

IdleCmd == [pc |-> "idle", data |-> <<>>, tmp |-> FALSE, tmp2 |-> FALSE]

\* MockSerialPort.__init__ (mock_serial_port.py)
SimInit ==
    /\ is_open = FALSE
    /\ _expect_ok = FALSE
    /\ _read_requested = FALSE
    /\ _heartbeat_requested = FALSE
    /\ _pin_states = DefaultPinStates
    /\ timers = EmptyBag
    /\ cmd = IdleCmd
    /\ response = <<>>
    /\ raised = "none"
    /\ stdout = <<>>

\* ---------------------------------------------------------- tuple updates
\* the tuple built for a one-channel assignment: (value, other) when channel
\* is "A", (other, value) when it is "B"; other is the loaded other channel
PairWith(channel, value, other) ==
    IF channel = "A" THEN <<value, other>> ELSE <<other, value>>

ChannelOf(pair, channel) == IF channel = "A" THEN pair[1] ELSE pair[2]

OtherChannel(channel) == IF channel = "A" THEN "B" ELSE "A"

\* the commanded bit of a channel in an E or I frame
FrameBit(data, channel) == IF channel = "A" THEN Bit(At(data, 1)) ELSE Bit(At(data, 2))

\* the live timer threads
Threads == BagToSet(timers)

\* how many live timer threads a signal has
Alive(sig) ==
    LET of == {r \in Threads : r.sig = sig}
    IN  IF of = {} THEN 0 ELSE BagCardinality([r \in of |-> timers[r]])

\* threading.Timer(delay_ms / 1000, callback, [second_channel, second_state]).start()
\* a thread whose transition of sig has not been stored yet
Pending(sig, r) == r.sig = sig /\ r.pc \in {"waiting", "store"}

\* history: a frame for sig is applied
NoteSuperseded(sig, r) ==
    IF Pending(sig, r) THEN [r EXCEPT !.superseded = TRUE] ELSE r

Superseding(sig) == BagOfAll(LAMBDA r : NoteSuperseded(sig, r), timers)

\* a start that cancels the transitions of sig still pending
StartTimerCancelling(sig, channel, state, delay_ms) ==
    LET kept == {r \in Threads : ~Pending(sig, r)}
    IN  [r \in kept |-> timers[r]]
            (+) SetToBag({NewTimer(sig, channel, state, delay_ms)})

StartTimer(sig, channel, state, delay_ms) ==
    Superseding(sig) (+) SetToBag({NewTimer(sig, channel, state, delay_ms)})

\* one thread moves from record r to record r2
Moved(r, r2) == (timers (-) SetToBag({r})) (+) SetToBag({r2})

\* one thread ends
Ended(r) == timers (-) SetToBag({r})

\* ------------------------------------------ command path: open, close, write
\* MockSerialPort.open
open ==
    /\ cmd.pc = "idle"
    /\ is_open' = TRUE
    /\ raised' = "none"
    /\ UNCHANGED <<_expect_ok, _read_requested, _heartbeat_requested, _pin_states,
                   timers, cmd, response, stdout>>
    /\ UNCHANGED <<drvvars, guivars>>

\* a close that cancels the timers still waiting for their interval
close_cancelling ==
    /\ cmd.pc = "idle"
    /\ is_open' = FALSE
    /\ raised' = "none"
    /\ timers' = LET kept == {r \in Threads : r.pc # "waiting"}
                 IN  [r \in kept |-> timers[r]]
    /\ UNCHANGED <<_expect_ok, _read_requested, _heartbeat_requested, _pin_states,
                   cmd, response, stdout>>
    /\ UNCHANGED <<drvvars, guivars>>

\* MockSerialPort.close
close ==
    /\ cmd.pc = "idle"
    /\ is_open' = FALSE
    /\ raised' = "none"
    /\ UNCHANGED <<_expect_ok, _read_requested, _heartbeat_requested, _pin_states,
                   timers, cmd, response, stdout>>
    /\ UNCHANGED <<drvvars, guivars>>

\* the state a call of write(data) starts from: the previous call's result is gone
Calling(data) ==
    /\ cmd.pc = "idle"
    /\ response' = <<>>
    /\ stdout' = <<>>

\* write() returns normally: the caller goes on to read()
Written(data) == [pc |-> "written", data |-> data, tmp |-> FALSE, tmp2 |-> FALSE]

\* write() on a closed port
write_closed(data) ==
    /\ Calling(data)
    /\ ~is_open
    /\ raised' = "SerialException"
    /\ UNCHANGED <<is_open, _expect_ok, _read_requested, _heartbeat_requested,
                   _pin_states, timers, cmd>>
    /\ UNCHANGED <<drvvars, guivars>>

\* case "R"
write_R(data) ==
    /\ Calling(data)
    /\ is_open
    /\ At(Strip(data), 0) = "R"
    /\ _read_requested' = TRUE
    /\ cmd' = Written(data)
    /\ raised' = "none"
    /\ UNCHANGED <<is_open, _expect_ok, _heartbeat_requested, _pin_states, timers>>
    /\ UNCHANGED <<drvvars, guivars>>

\* a case "H" that stores a measurement in the heartbeat pins
write_H_storing(data) ==
    /\ Calling(data)
    /\ is_open
    /\ At(Strip(data), 0) = "H"
    /\ _heartbeat_requested' = TRUE
    /\ _pin_states' = [_pin_states EXCEPT !.heartbeat = <<~@[1], @[2]>>]
    /\ cmd' = Written(data)
    /\ raised' = "none"
    /\ UNCHANGED <<is_open, _expect_ok, _read_requested, timers>>
    /\ UNCHANGED <<drvvars, guivars>>

\* case "H"
write_H(data) ==
    /\ Calling(data)
    /\ is_open
    /\ At(Strip(data), 0) = "H"
    /\ _heartbeat_requested' = TRUE
    /\ cmd' = Written(data)
    /\ raised' = "none"
    /\ UNCHANGED <<is_open, _expect_ok, _read_requested, _pin_states, timers>>
    /\ UNCHANGED <<drvvars, guivars>>

\* mode bits paired by position: mode1 = (a1, a2), mode2 = (b1, b2)
_set_mode_paired_by_position(p, ser_data) ==
    [p EXCEPT !.mode1 = <<Bit(At(ser_data, 1)), Bit(At(ser_data, 2))>>,
              !.mode2 = <<Bit(At(ser_data, 3)), Bit(At(ser_data, 4))>>]

\* MockSerialPort._set_mode_from_serial_data
_set_mode_from_serial_data(p, ser_data) ==
    [p EXCEPT !.mode1 = <<Bit(At(ser_data, 1)), Bit(At(ser_data, 3))>>,
              !.mode2 = <<Bit(At(ser_data, 2)), Bit(At(ser_data, 4))>>]

\* case "M"
write_M(data) ==
    /\ Calling(data)
    /\ is_open
    /\ At(Strip(data), 0) = "M"
    /\ _pin_states' = _set_mode_from_serial_data(_pin_states, data)
    /\ _expect_ok' = TRUE
    /\ cmd' = Written(data)
    /\ raised' = "none"
    /\ UNCHANGED <<is_open, _read_requested, _heartbeat_requested, timers>>
    /\ UNCHANGED <<drvvars, guivars>>

\* a P frame that toggles power
_toggle_power_from_serial_data(p, ser_data) ==
    [p EXCEPT !.power = <<~p.power[1], ~p.power[1]>>]

\* MockSerialPort._set_power_from_serial_data
_set_power_from_serial_data(p, ser_data) ==
    [p EXCEPT !.power = <<Bit(At(ser_data, 1)), Bit(At(ser_data, 1))>>]

\* case "P"
write_P(data) ==
    /\ Calling(data)
    /\ is_open
    /\ At(Strip(data), 0) = "P"
    /\ _pin_states' = _set_power_from_serial_data(_pin_states, data)
    /\ _expect_ok' = TRUE
    /\ cmd' = Written(data)
    /\ raised' = "none"
    /\ UNCHANGED <<is_open, _read_requested, _heartbeat_requested, timers>>
    /\ UNCHANGED <<drvvars, guivars>>

\* case "S" without self._expect_ok = True
write_S_without_ack(data) ==
    /\ Calling(data)
    /\ is_open
    /\ At(Strip(data), 0) = "S"
    /\ cmd' = Written(data)
    /\ raised' = "none"
    /\ UNCHANGED <<is_open, _expect_ok, _read_requested, _heartbeat_requested,
                   _pin_states, timers>>
    /\ UNCHANGED <<drvvars, guivars>>

\* case "S"
write_S(data) ==
    /\ Calling(data)
    /\ is_open
    /\ At(Strip(data), 0) = "S"
    /\ _expect_ok' = TRUE
    /\ cmd' = Written(data)
    /\ raised' = "none"
    /\ UNCHANGED <<is_open, _read_requested, _heartbeat_requested, _pin_states, timers>>
    /\ UNCHANGED <<drvvars, guivars>>

\* a case _ that drops the frame: nothing on sys.stdout, nothing raised
write_unknown_silent(data) ==
    /\ cmd.pc = "idle"
    /\ is_open
    /\ At(Strip(data), 0) \notin {"R", "H", "M", "E", "I", "P", "S"}
    /\ stdout' = <<>>
    /\ response' = <<>>
    /\ raised' = "none"
    /\ UNCHANGED <<is_open, _expect_ok, _read_requested, _heartbeat_requested,
                   _pin_states, timers, cmd>>
    /\ UNCHANGED <<drvvars, guivars>>

\* case _: the frame goes to sys.stdout and SerialException is raised
write_unknown(data) ==
    /\ cmd.pc = "idle"
    /\ is_open
    /\ At(Strip(data), 0) \notin {"R", "H", "M", "E", "I", "P", "S"}
    /\ stdout' = data
    /\ response' = <<>>
    /\ raised' = "SerialException"
    /\ UNCHANGED <<is_open, _expect_ok, _read_requested, _heartbeat_requested,
                   _pin_states, timers, cmd>>
    /\ UNCHANGED <<drvvars, guivars>>

\* ------------------------------- command path: _set_estop_from_serial_data
\* the delay clause of a 9-character frame
FirstChannel(data) == At(Strip(data), 3)

SecondChannel(data) == OtherChannel(FirstChannel(data))

\* int(str_data[4:9])
DelayMs(data) == ParseInt(Slice(Strip(data), 4, 9))

\* len(str_data) == 3: both channels are stored at once; _update_stop_pin_state
\* follows
write_E_immediate(data) ==
    /\ Calling(data)
    /\ is_open
    /\ At(Strip(data), 0) = "E"
    /\ Len(Strip(data)) = 3
    /\ _pin_states' =
         [_pin_states EXCEPT !.estop = <<Bit(At(data, 1)), Bit(At(data, 2))>>]
    /\ timers' = Superseding("estop")
    /\ cmd' = [pc |-> "E_upd0", data |-> data, tmp |-> FALSE, tmp2 |-> FALSE]
    /\ raised' = "none"
    /\ UNCHANGED <<is_open, _expect_ok, _read_requested, _heartbeat_requested>>
    /\ UNCHANGED <<drvvars, guivars>>

\* len(str_data) == 9, first channel A or B: the other channel of estop is
\* loaded to build the new tuple
write_E_delayed(data) ==
    /\ Calling(data)
    /\ is_open
    /\ At(Strip(data), 0) = "E"
    /\ Len(Strip(data)) = 9
    /\ AllDigits(Slice(Strip(data), 4, 9))
    /\ FirstChannel(data) \in Channels
    /\ Alive("estop") < MaxTimers
    /\ cmd' = [pc |-> "E_store", data |-> data,
               tmp |-> ChannelOf(_pin_states.estop, SecondChannel(data)),
               tmp2 |-> FALSE]
    /\ raised' = "none"
    /\ UNCHANGED <<is_open, _expect_ok, _read_requested, _heartbeat_requested,
                   _pin_states, timers>>
    /\ UNCHANGED <<drvvars, guivars>>

\* the first channel is stored with the loaded other channel, then the timer for
\* the second channel is started (the start is local to the new thread and is
\* taken together with the store)
set_estop_store ==
    /\ cmd.pc = "E_store"
    /\ _pin_states' =
         [_pin_states EXCEPT !.estop =
             PairWith(FirstChannel(cmd.data),
                      FrameBit(cmd.data, FirstChannel(cmd.data)), cmd.tmp)]
    /\ timers' = StartTimer("estop", SecondChannel(cmd.data),
                            FrameBit(cmd.data, SecondChannel(cmd.data)),
                            DelayMs(cmd.data))
    /\ cmd' = [cmd EXCEPT !.pc = "E_upd0", !.tmp = FALSE]
    /\ UNCHANGED <<is_open, _expect_ok, _read_requested, _heartbeat_requested,
                   response, raised, stdout>>
    /\ UNCHANGED <<drvvars, guivars>>

\* MockSerialPort._update_stop_pin_state on the command path, then
\* self._expect_ok = True
update_stop_load0 ==
    /\ cmd.pc = "E_upd0"
    /\ cmd' = [cmd EXCEPT !.pc = "E_upd1", !.tmp = _pin_states.estop[1]]
    /\ UNCHANGED <<is_open, _expect_ok, _read_requested, _heartbeat_requested,
                   _pin_states, timers, response, raised, stdout>>
    /\ UNCHANGED <<drvvars, guivars>>

update_stop_load1 ==
    /\ cmd.pc = "E_upd1"
    /\ cmd' = [cmd EXCEPT !.pc = "E_upd_store", !.tmp2 = _pin_states.estop[2]]
    /\ UNCHANGED <<is_open, _expect_ok, _read_requested, _heartbeat_requested,
                   _pin_states, timers, response, raised, stdout>>
    /\ UNCHANGED <<drvvars, guivars>>

update_stop_store ==
    /\ cmd.pc = "E_upd_store"
    /\ _pin_states' = [_pin_states EXCEPT !.stop = <<cmd.tmp, cmd.tmp2>>]
    /\ _expect_ok' = TRUE
    /\ cmd' = Written(cmd.data)
    /\ UNCHANGED <<is_open, _read_requested, _heartbeat_requested, timers,
                   response, raised, stdout>>
    /\ UNCHANGED <<drvvars, guivars>>

\* an E or I frame the handler rejects: a 9-character frame whose first channel
\* is neither A nor B, or a frame of another length
RejectedBy(data) ==
    IF Len(Strip(data)) = 9
    THEN IF ~AllDigits(Slice(Strip(data), 4, 9)) THEN "ValueError"
         ELSE IF FirstChannel(data) \notin Channels THEN "SerialException"
         ELSE "none"
    ELSE IF Len(Strip(data)) = 3 THEN "none" ELSE "SerialException"

\* a rejection that arms the acknowledgement all the same
write_invalid_acknowledged(data) ==
    /\ Calling(data)
    /\ is_open
    /\ At(Strip(data), 0) = "E"
    /\ RejectedBy(data) # "none"
    /\ raised' = RejectedBy(data)
    /\ _expect_ok' = TRUE
    /\ UNCHANGED <<is_open, _read_requested, _heartbeat_requested,
                   _pin_states, timers, cmd>>
    /\ UNCHANGED <<drvvars, guivars>>

write_E_invalid(data) ==
    /\ Calling(data)
    /\ is_open
    /\ At(Strip(data), 0) = "E"
    /\ RejectedBy(data) # "none"
    /\ raised' = RejectedBy(data)
    /\ UNCHANGED <<is_open, _expect_ok, _read_requested, _heartbeat_requested,
                   _pin_states, timers, cmd>>
    /\ UNCHANGED <<drvvars, guivars>>

\* --------------------------- command path: _set_interlock_from_serial_data
write_I_immediate(data) ==
    /\ Calling(data)
    /\ is_open
    /\ At(Strip(data), 0) = "I"
    /\ Len(Strip(data)) = 3
    /\ _pin_states' =
         [_pin_states EXCEPT !.interlock = <<Bit(At(data, 1)), Bit(At(data, 2))>>]
    /\ timers' = Superseding("interlock")
    /\ _expect_ok' = TRUE
    /\ cmd' = Written(data)
    /\ raised' = "none"
    /\ UNCHANGED <<is_open, _read_requested, _heartbeat_requested>>
    /\ UNCHANGED <<drvvars, guivars>>

write_I_delayed(data) ==
    /\ Calling(data)
    /\ is_open
    /\ At(Strip(data), 0) = "I"
    /\ Len(Strip(data)) = 9
    /\ AllDigits(Slice(Strip(data), 4, 9))
    /\ FirstChannel(data) \in Channels
    /\ Alive("interlock") < MaxTimers
    /\ cmd' = [pc |-> "I_store", data |-> data,
               tmp |-> ChannelOf(_pin_states.interlock, SecondChannel(data)),
               tmp2 |-> FALSE]
    /\ raised' = "none"
    /\ UNCHANGED <<is_open, _expect_ok, _read_requested, _heartbeat_requested,
                   _pin_states, timers>>
    /\ UNCHANGED <<drvvars, guivars>>

\* the first channel is stored, the timer for the second channel is started,
\* then self._expect_ok = True
set_interlock_store ==
    /\ cmd.pc = "I_store"
    /\ _pin_states' =
         [_pin_states EXCEPT !.interlock =
             PairWith(FirstChannel(cmd.data),
                      FrameBit(cmd.data, FirstChannel(cmd.data)), cmd.tmp)]
    /\ timers' = StartTimer("interlock", SecondChannel(cmd.data),
                            FrameBit(cmd.data, SecondChannel(cmd.data)),
                            DelayMs(cmd.data))
    /\ _expect_ok' = TRUE
    /\ cmd' = Written(cmd.data)
    /\ UNCHANGED <<is_open, _read_requested, _heartbeat_requested,
                   response, raised, stdout>>
    /\ UNCHANGED <<drvvars, guivars>>

write_I_invalid(data) ==
    /\ Calling(data)
    /\ is_open
    /\ At(Strip(data), 0) = "I"
    /\ RejectedBy(data) # "none"
    /\ raised' = RejectedBy(data)
    /\ UNCHANGED <<is_open, _expect_ok, _read_requested, _heartbeat_requested,
                   _pin_states, timers, cmd>>
    /\ UNCHANGED <<drvvars, guivars>>

\* ------------------------------------------------------ command path: read
\* random.randint(5, 15), sampled at its ends
HeartbeatValues == {HEARTBEAT_LOW, HEARTBEAT_HIGH}

\* what sys.stdin.read(size) may deliver
StdinInputs == {<<>>, OK_RESPONSE, <<"N", "O", "\n">>}

\* an update that randomizes teach as well
_update_heartbeat_and_teach(p, ha, hb) ==
    [p EXCEPT !.heartbeat = <<ha, hb>>, !.teach = <<ha, hb>>]

\* MockSerialPort._update_heartbeat with the two random bits drawn
_update_heartbeat(p, ha, hb) == [p EXCEPT !.heartbeat = <<ha, hb>>]

\* MockSerialPort.read: the caller reads after a write() that returned.
\* _encode_pin_states builds the response and then calls _update_heartbeat.
read ==
    /\ cmd.pc = "written"
    /\ cmd' = IdleCmd
    /\ IF ~is_open
       THEN /\ raised' = "SerialException"
            /\ UNCHANGED <<_expect_ok, _read_requested, _heartbeat_requested,
                           _pin_states, response>>
       ELSE /\ raised' = "none"
            /\ IF _expect_ok
               THEN /\ _expect_ok' = FALSE
                    /\ response' = OK_RESPONSE
                    /\ UNCHANGED <<_read_requested, _heartbeat_requested, _pin_states>>
               ELSE IF _read_requested
               THEN /\ _read_requested' = FALSE
                    /\ response' = EncodePins(_pin_states)
                    /\ \E ha \in BOOLEAN, hb \in BOOLEAN :
                          _pin_states' = _update_heartbeat(_pin_states, ha, hb)
                    /\ UNCHANGED <<_expect_ok, _heartbeat_requested>>
               ELSE IF _heartbeat_requested
               THEN /\ _heartbeat_requested' = FALSE
                    /\ \E a \in HeartbeatValues, b \in HeartbeatValues :
                          response' = EncodeHeartbeatValues(a, b)
                    /\ UNCHANGED <<_expect_ok, _read_requested, _pin_states>>
               ELSE /\ \E text \in StdinInputs : response' = text
                    /\ UNCHANGED <<_expect_ok, _read_requested, _heartbeat_requested,
                                   _pin_states>>
    /\ UNCHANGED <<is_open, timers, stdout>>
    /\ UNCHANGED <<drvvars, guivars>>

\* --------------------------------------------------------- timer threads
\* a timer that runs its callback as soon as it is started
DueAtOnce(r) == r.pc = "waiting"

\* the interval of a waiting timer has passed
Due(r) == r.pc = "waiting" /\ r.elapsed >= r.delay

\* MockSerialPort._process_estop_delay, run by the timer thread once its
\* interval has passed: the other channel of estop is loaded ...
_process_estop_delay_load(r) ==
    /\ r.sig = "estop"
    /\ Due(r)
    /\ timers' = Moved(r, [r EXCEPT !.pc = "store", !.delay = 0, !.elapsed = 0,
                              !.tmp = ChannelOf(_pin_states.estop,
                                                OtherChannel(r.channel))])
    /\ UNCHANGED <<is_open, _expect_ok, _read_requested, _heartbeat_requested,
                   _pin_states, cmd, response, raised, stdout>>
    /\ UNCHANGED <<drvvars, guivars>>

\* ... and the new tuple is stored
_process_estop_delay_store(r) ==
    /\ r.sig = "estop"
    /\ r.pc = "store"
    /\ _pin_states' =
         [_pin_states EXCEPT !.estop = PairWith(r.channel, r.state, r.tmp)]
    /\ timers' = Moved(r, Updating("upd0", FALSE, FALSE))
    /\ UNCHANGED <<is_open, _expect_ok, _read_requested, _heartbeat_requested,
                   cmd, response, raised, stdout>>
    /\ UNCHANGED <<drvvars, guivars>>

\* MockSerialPort._update_stop_pin_state on the timer thread
_update_stop_pin_state_load0(r) ==
    /\ r.pc = "upd0"
    /\ timers' = Moved(r, Updating("upd1", _pin_states.estop[1], FALSE))
    /\ UNCHANGED <<is_open, _expect_ok, _read_requested, _heartbeat_requested,
                   _pin_states, cmd, response, raised, stdout>>
    /\ UNCHANGED <<drvvars, guivars>>

_update_stop_pin_state_load1(r) ==
    /\ r.pc = "upd1"
    /\ timers' = Moved(r, Updating("upd_store", r.tmp, _pin_states.estop[2]))
    /\ UNCHANGED <<is_open, _expect_ok, _read_requested, _heartbeat_requested,
                   _pin_states, cmd, response, raised, stdout>>
    /\ UNCHANGED <<drvvars, guivars>>

\* the store of stop ends the thread
_update_stop_pin_state_store(r) ==
    /\ r.pc = "upd_store"
    /\ _pin_states' = [_pin_states EXCEPT !.stop = <<r.tmp, r.tmp2>>]
    /\ timers' = Ended(r)
    /\ UNCHANGED <<is_open, _expect_ok, _read_requested, _heartbeat_requested,
                   cmd, response, raised, stdout>>
    /\ UNCHANGED <<drvvars, guivars>>

\* MockSerialPort._process_interlock_delay
_process_interlock_delay_load(r) ==
    /\ r.sig = "interlock"
    /\ Due(r)
    /\ timers' = Moved(r, [r EXCEPT !.pc = "store", !.delay = 0, !.elapsed = 0,
                              !.tmp = ChannelOf(_pin_states.interlock,
                                                OtherChannel(r.channel))])
    /\ UNCHANGED <<is_open, _expect_ok, _read_requested, _heartbeat_requested,
                   _pin_states, cmd, response, raised, stdout>>
    /\ UNCHANGED <<drvvars, guivars>>

\* an interlock callback that copies interlock into stop, as the E-Stop
\* callback copies estop
_process_interlock_delay_store_and_stop(r) ==
    /\ r.sig = "interlock"
    /\ r.pc = "store"
    /\ _pin_states' =
         [_pin_states EXCEPT !.interlock = PairWith(r.channel, r.state, r.tmp),
                             !.stop = PairWith(r.channel, r.state, r.tmp)]
    /\ timers' = Ended(r)
    /\ UNCHANGED <<is_open, _expect_ok, _read_requested, _heartbeat_requested,
                   cmd, response, raised, stdout>>
    /\ UNCHANGED <<drvvars, guivars>>

\* the store of interlock ends the thread
_process_interlock_delay_store(r) ==
    /\ r.sig = "interlock"
    /\ r.pc = "store"
    /\ _pin_states' =
         [_pin_states EXCEPT !.interlock = PairWith(r.channel, r.state, r.tmp)]
    /\ timers' = Ended(r)
    /\ UNCHANGED <<is_open, _expect_ok, _read_requested, _heartbeat_requested,
                   cmd, response, raised, stdout>>
    /\ UNCHANGED <<drvvars, guivars>>

\* a millisecond of a waiting timer's interval passes
Aged(r) ==
    IF r.pc = "waiting" /\ r.elapsed < r.delay
    THEN [r EXCEPT !.elapsed = @ + 1]
    ELSE r

\* one millisecond passes for every timer still waiting for its interval
Tick ==
    /\ \E r \in Threads : Aged(r) # r
    /\ timers' = BagOfAll(Aged, timers)
    /\ UNCHANGED <<is_open, _expect_ok, _read_requested, _heartbeat_requested,
                   _pin_states, cmd, response, raised, stdout>>
    /\ UNCHANGED <<drvvars, guivars>>

\* ------------------------------------------------ model.py: the serial port
\* Model.__init__ binds self.serial to the MockSerialPort of model.py; the
\* line it leaves commented binds it to serial.Serial(), the line to the
\* device.  Both are modelled: kind "mock" and kind "line".
PortKinds == {"mock", "line"}

\* a byte that is not valid UTF-8
BYTE_FF == "0xFF"

\* bytes.decode() succeeds
Decodable(bytes) == \A i \in 1..Len(bytes) : bytes[i] # BYTE_FF

SerialExceptions == {"SerialException", "SerialTimeoutException"}

\* random.randint(0, 99999) of the MockSerialPort of model.py
HEARTBEAT_MIN == 0
HEARTBEAT_MAX == 99999

\* MockSerialPort.__init__ (model.py)
NewSerial(kind) ==
    [kind |-> kind, is_open |-> FALSE, expect_ok |-> FALSE,
     read_requested |-> FALSE, heartbeat_requested |-> FALSE,
     pin_states |-> DefaultPinStates]

\* what the line may deliver to one read(): nothing before the timeout, an
\* acknowledgement, other text, bytes that are not text, a status frame, the
\* same status frame with the heartbeat pins high, a status frame with a wrong
\* marker or cut short, a heartbeat frame, a heartbeat frame with a wrong
\* marker or a wrong digit, a heartbeat frame cut short in its second field
LineResponses ==
    {<<>>, OK_RESPONSE, <<"N", "O", "\n">>, <<BYTE_FF, "K", "\n">>,
     EncodePins(DefaultPinStates),
     EncodePins([DefaultPinStates EXCEPT !.heartbeat = <<TRUE, TRUE>>]),
     <<"X">> \o Tail(EncodePins(DefaultPinStates)),
     <<"A", "1", "\n">>,
     EncodeHeartbeatValues(HEARTBEAT_LOW, HEARTBEAT_HIGH),
     <<"X">> \o Tail(EncodeHeartbeatValues(HEARTBEAT_LOW, HEARTBEAT_HIGH)),
     <<"A", "0", "0", "0", "0", "x", "B", "0", "0", "0", "1", "5">>,
     <<"A", "0", "0", "0", "0", "0", "B", "0", "0", "1">>}

\* the pairs of draws of random.randint(0, 99999) the model takes: both ends
\* of the range and a value that needs padding, the two channels differing
HeartbeatDraws ==
    {<<HEARTBEAT_MIN, HEARTBEAT_MAX>>, <<HEARTBEAT_MAX, HEARTBEAT_HIGH>>}

\* what happens outside the program during one write-then-read exchange: on the
\* line the write may time out, the read may fail, or the read returns what
\* the line delivers; with the mock only sys.stdin and the draws of
\* random.randint (hz, sampled in HeartbeatDraws) are outside
Exchanges(kind) ==
    IF kind = "mock"
    THEN {[write |-> "none", read |-> "none", bytes |-> b, hz |-> hz] :
             b \in StdinInputs, hz \in HeartbeatDraws}
    ELSE {[write |-> "SerialTimeoutException", read |-> "none", bytes |-> <<>>,
           hz |-> <<0, 0>>],
          [write |-> "none", read |-> "SerialException", bytes |-> <<>>,
           hz |-> <<0, 0>>]}
         \cup {[write |-> "none", read |-> "none", bytes |-> b, hz |-> <<0, 0>>] :
                  b \in LineResponses}

\* what happens outside the program when the port is opened
OpenOutcomes(kind) == IF kind = "mock" THEN {"none"} ELSE {"none", "SerialException"}

\* self.serial.open(): the mock sets is_open; the line fails when the device
\* cannot be opened or the port is open already
serial_open(s, env) ==
    IF s.kind = "line" /\ (s.is_open \/ env # "none")
    THEN [raised |-> "SerialException", s |-> s]
    ELSE [raised |-> "none", s |-> [s EXCEPT !.is_open = TRUE]]

\* self.serial.close()
serial_close(s) == [s EXCEPT !.is_open = FALSE]

\* MockSerialPort.write (model.py), past the is_open test
mock_write(s, data) ==
    LET str_data == Strip(data)
        c == At(str_data, 0)
        p == s.pin_states
    IN  IF c = "R" THEN [s EXCEPT !.read_requested = TRUE]
        ELSE IF c = "H" THEN [s EXCEPT !.heartbeat_requested = TRUE]
        ELSE IF c = "M"
        THEN [s EXCEPT !.pin_states =
                 [p EXCEPT !.mode1 = <<Bit(At(data, 1)), Bit(At(data, 3))>>,
                           !.mode2 = <<Bit(At(data, 2)), Bit(At(data, 4))>>],
                       !.expect_ok = TRUE]
        ELSE IF c = "E"
        THEN [s EXCEPT !.pin_states =
                 [p EXCEPT !.estop = <<Bit(At(data, 1)), Bit(At(data, 2))>>],
                       !.expect_ok = TRUE]
        ELSE IF c = "I"
        THEN [s EXCEPT !.pin_states =
                 [p EXCEPT !.interlock = <<Bit(At(data, 1)), Bit(At(data, 2))>>],
                       !.expect_ok = TRUE]
        ELSE IF c = "P"
        THEN [s EXCEPT !.pin_states =
                 [p EXCEPT !.power = <<Bit(At(data, 1)), Bit(At(data, 1))>>],
                       !.expect_ok = TRUE]
        ELSE IF c = "S" THEN [s EXCEPT !.expect_ok = TRUE]
        ELSE s

\* MockSerialPort.write (model.py), case _: the line that goes to sys.stdout,
\* <<>> when the frame's letter is known and nothing is written
mock_stdout(s, data) ==
    IF At(Strip(data), 0) \in {"R", "H", "M", "E", "I", "P", "S"} THEN <<>> ELSE data

\* self.serial.write(data): a closed port raises; the mock applies the frame
\* (a frame of another letter goes to sys.stdout and changes nothing); the
\* line takes the frame or times out
serial_write(s, data, env) ==
    IF ~s.is_open THEN [raised |-> "SerialException", s |-> s]
    ELSE IF s.kind = "line" THEN [raised |-> env.write, s |-> s]
    ELSE IF Strip(data) = <<>> THEN [raised |-> "IndexError", s |-> s]
    ELSE [raised |-> "none", s |-> mock_write(s, data)]

\* self.serial.read(size): a closed port raises; the mock answers the request
\* that is pending, or reads size characters of sys.stdin; the line returns at
\* most size bytes or fails
serial_read(s, size, env) ==
    IF ~s.is_open THEN [raised |-> "SerialException", s |-> s, bytes |-> <<>>]
    ELSE IF s.kind = "line"
    THEN IF env.read # "none"
         THEN [raised |-> env.read, s |-> s, bytes |-> <<>>]
         ELSE [raised |-> "none", s |-> s, bytes |-> Slice(env.bytes, 0, size)]
    ELSE IF s.expect_ok
    THEN [raised |-> "none", s |-> [s EXCEPT !.expect_ok = FALSE],
          bytes |-> OK_RESPONSE]
    ELSE IF s.read_requested
    THEN [raised |-> "none", s |-> [s EXCEPT !.read_requested = FALSE],
          bytes |-> EncodePins(s.pin_states)]
    ELSE IF s.heartbeat_requested
    THEN [raised |-> "none", s |-> [s EXCEPT !.heartbeat_requested = FALSE],
          bytes |-> EncodeHeartbeatValues(env.hz[1], env.hz[2])]
    ELSE [raised |-> "none", s |-> s, bytes |-> Slice(env.bytes, 0, size)]

\* ------------------------------------------------------- model.py: Model
\* Model.__init__: self.output_pin_states
InitialOutputPinStates ==
    [mode1 |-> <<FALSE, FALSE>>, mode2 |-> <<FALSE, FALSE>>,
     estop |-> <<FALSE, FALSE>>, interlock |-> <<FALSE, FALSE>>,
     stop |-> <<FALSE, FALSE>>, teach |-> <<FALSE, FALSE>>,
     heartbeat |-> <<FALSE, FALSE>>, power |-> <<FALSE, FALSE>>]

\* how a call ended: it returned value or raised value; s is self.serial
\* afterwards; data, write, read and bytes tell what passed through the port:
\* the frame given to write(), the exception write() and read() raised or
\* "none", the bytes read() returned
Outcome(kind, value, s, data, w, r, bytes) ==
    [kind |-> kind, value |-> value, s |-> s, data |-> data,
     write |-> w, read |-> r, bytes |-> bytes]

\* Serial_Connect_Panel.create_right_widgets: the label starts as
\* "Disconnected"; nothing is scheduled before the first connect
ViewInit ==
    /\ lbl_status = "Disconnected"
    /\ scheduled = 0

\* Model.__init__
ModelInit(kind) ==
    /\ serial = NewSerial(kind)
    /\ output_pin_states = InitialOutputPinStates
    /\ result = [op |-> "__init__", kind |-> "returned", value |-> "None",
                 data |-> <<>>, write |-> "none", read |-> "none", bytes |-> <<>>]

\* the call of op ends as outcome o tells
Ends(op, o) ==
    /\ serial' = o.s
    /\ result' = [op |-> op, kind |-> o.kind, value |-> o.value, data |-> o.data,
                  write |-> o.write, read |-> o.read, bytes |-> o.bytes]

\* a connect whose except clause returns False without disconnecting
connect_without_disconnect ==
    /\ \E env \in OpenOutcomes(serial.kind) :
          LET o == serial_open(serial, env)
          IN  IF o.raised = "SerialException"
              THEN Ends("connect_to_serial_port",
                        Outcome("returned", "False", o.s,
                                <<>>, "none", "none", <<>>))
              ELSE Ends("connect_to_serial_port",
                        Outcome("returned", "True", o.s, <<>>, "none", "none", <<>>))
    /\ UNCHANGED <<output_pin_states, simvars, guivars>>

\* Model.connect_to_serial_port
connect_to_serial_port ==
    /\ \E env \in OpenOutcomes(serial.kind) :
          LET o == serial_open(serial, env)
          IN  IF o.raised = "SerialException"
              THEN Ends("connect_to_serial_port",
                        Outcome("returned", "False", serial_close(o.s),
                                <<>>, "none", "none", <<>>))
              ELSE Ends("connect_to_serial_port",
                        Outcome("returned", "True", o.s, <<>>, "none", "none", <<>>))
    /\ UNCHANGED <<output_pin_states, simvars, guivars>>

\* Model.disconnect_from_serial_port
disconnect_from_serial_port ==
    /\ Ends("disconnect_from_serial_port",
            Outcome("returned", "None", serial_close(serial),
                    <<>>, "none", "none", <<>>))
    /\ UNCHANGED <<output_pin_states, simvars, guivars>>

\* write_data without the disconnect that follows a response other than OK
write_data_without_disconnect(s, data, env) ==
    LET w == serial_write(s, data, env)
        r == serial_read(w.s, 3, env)
    IN  IF w.raised \in SerialExceptions
        THEN Outcome("returned", "False", serial_close(w.s), data, w.raised, "none", <<>>)
        ELSE IF w.raised # "none"
        THEN Outcome("raised", w.raised, w.s, data, w.raised, "none", <<>>)
        ELSE IF r.raised \in SerialExceptions
        THEN Outcome("returned", "False", serial_close(r.s), data, "none", r.raised, <<>>)
        ELSE IF ~Decodable(r.bytes)
        THEN Outcome("raised", "UnicodeDecodeError", r.s, data, "none", "none", r.bytes)
        ELSE IF Strip(r.bytes) = <<"O", "K">>
        THEN Outcome("returned", "True", r.s, data, "none", "none", r.bytes)
        ELSE Outcome("returned", "False", r.s, data, "none", "none", r.bytes)

\* a write_data that returns True once the frame is written, its response unread
write_data_unread(s, data, env) ==
    LET w == serial_write(s, data, env)
    IN  IF w.raised \in SerialExceptions
        THEN Outcome("returned", "False", serial_close(w.s), data, w.raised, "none", <<>>)
        ELSE IF w.raised # "none"
        THEN Outcome("raised", w.raised, w.s, data, w.raised, "none", <<>>)
        ELSE Outcome("returned", "True", w.s, data, "none", "none", <<>>)

\* Model.write_data with Model.read_response_OK: the frame is written, three
\* bytes are read, decoded and stripped, and compared with "OK"
write_data(s, data, env) ==
    LET w == serial_write(s, data, env)
        r == serial_read(w.s, 3, env)
    IN  IF w.raised \in SerialExceptions
        THEN Outcome("returned", "False", serial_close(w.s), data, w.raised, "none", <<>>)
        ELSE IF w.raised # "none"
        THEN Outcome("raised", w.raised, w.s, data, w.raised, "none", <<>>)
        ELSE IF r.raised \in SerialExceptions
        THEN Outcome("returned", "False", serial_close(r.s), data, "none", r.raised, <<>>)
        ELSE IF ~Decodable(r.bytes)
        THEN Outcome("raised", "UnicodeDecodeError", r.s, data, "none", "none", r.bytes)
        ELSE IF Strip(r.bytes) = <<"O", "K">>
        THEN Outcome("returned", "True", r.s, data, "none", "none", r.bytes)
        ELSE Outcome("returned", "False", serial_close(r.s), data, "none", "none", r.bytes)

\* a call of Model.write_data by itself and through the methods that end with it
Sends(op, data) ==
    /\ \E env \in Exchanges(serial.kind) : Ends(op, write_data(serial, data, env))
    /\ UNCHANGED <<output_pin_states, simvars, guivars>>

\* frames given to Model.write_data directly
DirectFrames == {<<"R">>, <<"X">>}

write_data_call == \E data \in DirectFrames : Sends("write_data", data)

\* a parse that reads teach at the offsets of stop
ParsePinsTeachFromStop(r) ==
    [mode1 |-> <<Bit(At(r, 1)), Bit(At(r, 10))>>,
     mode2 |-> <<Bit(At(r, 2)), Bit(At(r, 11))>>,
     estop |-> <<Bit(At(r, 3)), Bit(At(r, 12))>>,
     interlock |-> <<Bit(At(r, 4)), Bit(At(r, 13))>>,
     stop |-> <<Bit(At(r, 5)), Bit(At(r, 14))>>,
     teach |-> <<Bit(At(r, 5)), Bit(At(r, 14))>>,
     heartbeat |-> <<Bit(At(r, 7)), Bit(At(r, 16))>>,
     power |-> <<Bit(At(r, 8)), Bit(At(r, 17))>>]

\* the pin dictionary Model.request_output_pin_states parses from a response
ParsePins(r) ==
    [mode1 |-> <<Bit(At(r, 1)), Bit(At(r, 10))>>,
     mode2 |-> <<Bit(At(r, 2)), Bit(At(r, 11))>>,
     estop |-> <<Bit(At(r, 3)), Bit(At(r, 12))>>,
     interlock |-> <<Bit(At(r, 4)), Bit(At(r, 13))>>,
     stop |-> <<Bit(At(r, 5)), Bit(At(r, 14))>>,
     teach |-> <<Bit(At(r, 6)), Bit(At(r, 15))>>,
     heartbeat |-> <<Bit(At(r, 7)), Bit(At(r, 16))>>,
     power |-> <<Bit(At(r, 8)), Bit(At(r, 17))>>]

\* Model.request_output_pin_states up to the parse: R is written, 19 bytes are
\* read, decoded and stripped; a port exception disconnects and returns {}; a
\* wrong marker returns {}; an index past the end of the response raises
StatusExchange(s, env) ==
    LET data == <<"R">>
        w == serial_write(s, data, env)
        r == serial_read(w.s, 19, env)
        resp == Strip(r.bytes)
    IN  IF w.raised \in SerialExceptions
        THEN Outcome("returned", "{}", serial_close(w.s), data, w.raised, "none", <<>>)
        ELSE IF r.raised \in SerialExceptions
        THEN Outcome("returned", "{}", serial_close(r.s), data, "none", r.raised, <<>>)
        ELSE IF ~Decodable(r.bytes)
        THEN Outcome("raised", "UnicodeDecodeError", r.s, data, "none", "none", r.bytes)
        ELSE IF Len(resp) = 0
        THEN Outcome("raised", "IndexError", r.s, data, "none", "none", r.bytes)
        ELSE IF At(resp, 0) # "A"
        THEN Outcome("returned", "{}", r.s, data, "none", "none", r.bytes)
        ELSE IF Len(resp) < 10
        THEN Outcome("raised", "IndexError", r.s, data, "none", "none", r.bytes)
        ELSE IF At(resp, 9) # "B"
        THEN Outcome("returned", "{}", r.s, data, "none", "none", r.bytes)
        ELSE IF Len(resp) < 18
        THEN Outcome("raised", "IndexError", r.s, data, "none", "none", r.bytes)
        ELSE Outcome("returned", "pin_states", r.s, data, "none", "none", r.bytes)

\* a status read that clears self.output_pin_states when it fails
request_output_pin_states_clearing ==
    /\ \E env \in Exchanges(serial.kind) :
          LET o == StatusExchange(serial, env)
          IN  /\ Ends("request_output_pin_states", o)
              /\ output_pin_states' =
                    IF o.value = "pin_states"
                    THEN ParsePins(Strip(o.bytes))
                    ELSE InitialOutputPinStates
    /\ UNCHANGED <<simvars, guivars>>

\* Model.request_output_pin_states: the parsed dictionary replaces
\* self.output_pin_states when it differs from it
request_output_pin_states ==
    /\ \E env \in Exchanges(serial.kind) :
          LET o == StatusExchange(serial, env)
          IN  /\ Ends("request_output_pin_states", o)
              /\ output_pin_states' =
                    IF o.value = "pin_states" /\ output_pin_states # ParsePins(Strip(o.bytes))
                    THEN ParsePins(Strip(o.bytes))
                    ELSE output_pin_states
    /\ UNCHANGED <<simvars, guivars>>

ModeNames == {"Automatic", "Stop", "Manual", "Mute"}

\* a match that takes Manual for Mute and Mute for Manual
ModeBitsManualMuteSwapped(mode_str) ==
    CASE mode_str = "Automatic" -> <<"0", "1", "1", "0">>
      [] mode_str = "Stop"      -> <<"1", "0", "1", "0">>
      [] mode_str = "Manual"    -> <<"0", "1", "0", "1">>
      [] mode_str = "Mute"      -> <<"1", "0", "0", "1">>

\* the match of Model.set_mode
ModeBits(mode_str) ==
    CASE mode_str = "Automatic" -> <<"0", "1", "1", "0">>
      [] mode_str = "Stop"      -> <<"1", "0", "1", "0">>
      [] mode_str = "Manual"    -> <<"1", "0", "0", "1">>
      [] mode_str = "Mute"      -> <<"0", "1", "0", "1">>

\* Model.set_mode: a name the match does not know leaves mode_bits unbound
set_mode(mode_str) ==
    IF mode_str \in ModeNames
    THEN Sends("set_mode", <<"M">> \o ModeBits(mode_str))
    ELSE /\ Ends("set_mode",
                 Outcome("raised", "UnboundLocalError", serial, <<>>, "none", "none", <<>>))
         /\ UNCHANGED <<output_pin_states, simvars, guivars>>

\* "1" if bit == "0" else "0"
Toggled(bit) == IF bit = "0" THEN "1" ELSE "0"

\* Model.toggle_mode_bit: the bits last read from the controller, one toggled
ToggledModeBits(mode_bit) ==
    LET mode_ab1 == output_pin_states.mode1
        mode_ab2 == output_pin_states.mode2
        mode_bits == <<BitStr(mode_ab1[1]), BitStr(mode_ab2[1]),
                       BitStr(mode_ab1[2]), BitStr(mode_ab2[2])>>
    IN  CASE mode_bit = "A1" -> [mode_bits EXCEPT ![1] = Toggled(@)]
          [] mode_bit = "A2" -> [mode_bits EXCEPT ![2] = Toggled(@)]
          [] mode_bit = "B1" -> [mode_bits EXCEPT ![3] = Toggled(@)]
          [] mode_bit = "B2" -> [mode_bits EXCEPT ![4] = Toggled(@)]
          [] OTHER -> mode_bits

toggle_mode_bit(mode_bit) ==
    Sends("toggle_mode_bit", <<"M">> \o ToggledModeBits(mode_bit))

\* the bits of Model.toggle_estop and Model.toggle_interlock: the pair last
\* read, each channel negated when asked, then the delay clause when the first
\* channel is A or B
ToggleBits(curr, toggle_a, toggle_b, first_channel, delay_ms) ==
    LET a == IF toggle_a THEN ~curr[1] ELSE curr[1]
        b == IF toggle_b THEN ~curr[2] ELSE curr[2]
    IN  IF first_channel = "A" \/ first_channel = "B"
        THEN <<BitStr(a), BitStr(b), first_channel,
               DigitStr((delay_ms \div 10000) % 10), DigitStr((delay_ms \div 1000) % 10),
               DigitStr((delay_ms \div 100) % 10), DigitStr((delay_ms \div 10) % 10),
               DigitStr(delay_ms % 10)>>
        ELSE <<BitStr(a), BitStr(b)>>

toggle_estop(toggle_e_stop_a, toggle_e_stop_b, first_channel, delay_ms) ==
    Sends("toggle_estop",
          <<"E">> \o ToggleBits(output_pin_states.estop, toggle_e_stop_a,
                                toggle_e_stop_b, first_channel, delay_ms))

toggle_interlock(toggle_interlock_a, toggle_interlock_b, first_channel, delay_ms) ==
    Sends("toggle_interlock",
          <<"I">> \o ToggleBits(output_pin_states.interlock, toggle_interlock_a,
                                toggle_interlock_b, first_channel, delay_ms))

\* a toggle_power that switches off only when both channels were read on
toggle_power_both_on ==
    LET power == output_pin_states.power
    IN  Sends("toggle_power",
              IF power[1] /\ power[2] THEN <<"P", "0">> ELSE <<"P", "1">>)

\* Model.toggle_power
toggle_power ==
    LET power == output_pin_states.power
    IN  Sends("toggle_power",
              IF power[1] \/ power[2] THEN <<"P", "0">> ELSE <<"P", "1">>)

\* Model.set_echo_string
set_echo_string(echo_string) ==
    Sends("set_echo_string", <<"S">> \o echo_string \o <<"\n">>)

\* heartbeat_hz = (int(data[1:6]), int(data[7:12])) of Model.request_heartbeat
HeartbeatReading(text) ==
    <<ParseInt(Slice(text, 1, 6)), ParseInt(Slice(text, 7, 12))>>

\* Model.request_heartbeat: H is written, 13 bytes are read, decoded and
\* stripped.  A SerialException returns None and leaves the port as it is, a
\* SerialTimeoutException is a SerialException; wrong markers return None; a
\* field that is not a number returns None
HeartbeatExchange(s, env) ==
    LET data == <<"H">>
        w == serial_write(s, data, env)
        r == serial_read(w.s, 13, env)
        text == Strip(r.bytes)
    IN          IF w.raised \in SerialExceptions
                THEN Outcome("returned", "None", w.s, data, w.raised, "none", <<>>)
                ELSE IF r.raised \in SerialExceptions
                THEN Outcome("returned", "None", r.s, data, "none", r.raised, <<>>)
                ELSE IF ~Decodable(r.bytes)
                THEN Outcome("raised", "UnicodeDecodeError", r.s, data, "none", "none", r.bytes)
                ELSE IF Len(text) = 0
                THEN Outcome("raised", "IndexError", r.s, data, "none", "none", r.bytes)
                ELSE IF At(text, 0) # "A"
                THEN Outcome("returned", "None", r.s, data, "none", "none", r.bytes)
                ELSE IF Len(text) < 7
                THEN Outcome("raised", "IndexError", r.s, data, "none", "none", r.bytes)
                ELSE IF At(text, 6) # "B"
                THEN Outcome("returned", "None", r.s, data, "none", "none", r.bytes)
                ELSE IF ~AllDigits(Slice(text, 1, 6)) \/ ~AllDigits(Slice(text, 7, 12))
                THEN Outcome("returned", "None", r.s, data, "none", "none", r.bytes)
                ELSE Outcome("returned", "heartbeat_hz", r.s, data, "none", "none", r.bytes)

request_heartbeat ==
    /\ \E env \in Exchanges(serial.kind) :
          Ends("request_heartbeat", HeartbeatExchange(serial, env))
    /\ UNCHANGED <<output_pin_states, simvars, guivars>>

\* what the caller of the Model passes in
EchoStrings == {<<"h", "i">>}

\* ------------------------------------------- view.py, presenter.py: E-Stop
\* the largest value validate_delay_entry accepts
DELAY_MAX == 99999

\* delay_ms as a caller of Model.toggle_estop and Model.toggle_interlock may
\* pass it: the ends of the range of the delay field, a value inside, the
\* first value past it
DriverDelays == {0, 250, DELAY_MAX, DELAY_MAX + 1}

\* Emergency_Stop_Panel.validate_delay_entry, for a text of decimal digits
\* and for a text int() does not take or takes as a negative number
validate_delay_entry(value) ==
    IF value = <<>> THEN TRUE
    ELSE IF AllDigits(value)
    THEN ~(ParseInt(value) < 0 \/ ParseInt(value) > DELAY_MAX)
    ELSE FALSE

\* what is typed into the delay entry
DelayTexts ==
    {<<>>, <<"0">>, <<"2", "5", "0">>, <<"9", "9", "9", "9", "9">>,
     <<"1", "0", "0", "0", "0", "0">>, <<"2", "x">>, <<"-", "1">>}

\* what the delay entry can hold: validatecommand refuses every edit that
\* validate_delay_entry does not accept
DelayEntries == {value \in DelayTexts : validate_delay_entry(value)}

\* the keys of Emergency_Stop_Panel.trigger_states
TriggerStates == {"A and B", "A then B", "B then A", "A only", "B only"}

\* Presenter.toggle_e_stop: every case of the match calls
\* self.model.set_estop, which Model does not define (its method is
\* toggle_estop): the attribute lookup raises before int(delay_ms) is
\* evaluated.  A trigger state outside the match goes to
\* failed_to_communicate, which disconnects.
toggle_e_stop(trigger_state, delay_ms) ==
    /\ Ends("Presenter.toggle_e_stop",
            IF trigger_state \in TriggerStates
            THEN Outcome("raised", "AttributeError", serial,
                         <<>>, "none", "none", <<>>)
            ELSE Outcome("returned", "None", serial_close(serial),
                         <<>>, "none", "none", <<>>))
    /\ lbl_status' = (IF trigger_state \in TriggerStates THEN lbl_status ELSE "Disconnected")
    /\ UNCHANGED <<output_pin_states, simvars, scheduled>>

\* ------------------------------------------------ presenter.py: Presenter
\* Every method of the Presenter runs to its end on the Tk thread, as a button
\* command or as a callback of View.after; an exception that leaves it is
\* reported by Tk and the loop goes on.

\* a failure after which the port stays open
failed_without_disconnect(o) == o

\* Presenter.failed_to_communicate on the port the Model call has left:
\* self.model.disconnect_from_serial_port(); the label is set by the caller's
\* action
failed_to_communicate(o) == [o EXCEPT !.s = serial_close(o.s)]

\* the Model call returned something the Presenter takes for a failure
Falsy(o) == o.kind = "returned" /\ o.value \in {"False", "{}", "None"}

\* the end of a Presenter method that goes to failed_to_communicate when the
\* Model call returns a falsy value
PresenterEnds(op, o) ==
    /\ Ends(op, IF Falsy(o) THEN failed_to_communicate(o) ELSE o)
    /\ lbl_status' = (IF Falsy(o) THEN "Disconnected" ELSE lbl_status)

\* Presenter.update_output_pin_indicators, run when a scheduled callback is
\* due: the callback is used up; a poll that returns a pin dictionary
\* schedules the next one
update_output_pin_indicators ==
    /\ scheduled > 0
    /\ \E env \in Exchanges(serial.kind) :
          LET o == StatusExchange(serial, env)
          IN  /\ PresenterEnds("Presenter.update_output_pin_indicators", o)
              /\ output_pin_states' =
                    IF o.value = "pin_states" /\ output_pin_states # ParsePins(Strip(o.bytes))
                    THEN ParsePins(Strip(o.bytes))
                    ELSE output_pin_states
              /\ scheduled' =
                    IF o.kind = "returned" /\ o.value = "pin_states"
                    THEN (scheduled - 1) + 1
                    ELSE scheduled - 1
    /\ UNCHANGED simvars

\* Presenter.connect_to_serial_port, the command of btn_connect while the
\* panel shows "Disconnected".  With no port typed and none detected it
\* returns at once; a connect that succeeds sets the label and schedules a
\* poll; one that fails sets the label
Presenter_connect_to_serial_port(port_found) ==
    /\ lbl_status = "Disconnected"
    /\ IF ~port_found
       THEN /\ Ends("Presenter.connect_to_serial_port",
                    Outcome("returned", "None", serial, <<>>, "none", "none", <<>>))
            /\ UNCHANGED guivars
       ELSE \E env \in OpenOutcomes(serial.kind) :
               LET o == serial_open(serial, env)
               IN  IF o.raised = "SerialException"
                   THEN /\ Ends("Presenter.connect_to_serial_port",
                                Outcome("returned", "False", serial_close(o.s),
                                        <<>>, "none", "none", <<>>))
                        /\ lbl_status' = "Disconnected"
                        /\ UNCHANGED scheduled
                   ELSE /\ scheduled < MaxScheduled
                        /\ Ends("Presenter.connect_to_serial_port",
                                Outcome("returned", "True", o.s, <<>>, "none", "none", <<>>))
                        /\ lbl_status' = "Connected"
                        /\ scheduled' = scheduled + 1
    /\ UNCHANGED <<output_pin_states, simvars>>

\* Presenter.disconnect_from_serial_port, the command of btn_connect while
\* the panel shows "Connected": what View.after holds is not cancelled
Presenter_disconnect_from_serial_port ==
    /\ lbl_status = "Connected"
    /\ Ends("Presenter.disconnect_from_serial_port",
            Outcome("returned", "None", serial_close(serial), <<>>, "none", "none", <<>>))
    /\ lbl_status' = "Disconnected"
    /\ UNCHANGED <<output_pin_states, simvars, scheduled>>

\* a Presenter method that ends with a frame given to Model.write_data
Commands(op, data) ==
    /\ \E env \in Exchanges(serial.kind) : PresenterEnds(op, write_data(serial, data, env))
    /\ UNCHANGED <<output_pin_states, simvars, scheduled>>

\* Presenter.set_mode with a name of Mode_Selection_Panel
Presenter_set_mode(mode) == Commands("Presenter.set_mode", <<"M">> \o ModeBits(mode))

\* Presenter.toggle_power
Presenter_toggle_power ==
    LET power == output_pin_states.power
    IN  Commands("Presenter.toggle_power",
                 IF power[1] \/ power[2] THEN <<"P", "0">> ELSE <<"P", "1">>)

\* Presenter.measure_heartbeat
measure_heartbeat ==
    /\ \E env \in Exchanges(serial.kind) :
          PresenterEnds("Presenter.measure_heartbeat", HeartbeatExchange(serial, env))
    /\ UNCHANGED <<output_pin_states, simvars, scheduled>>

\* ---------------------------------------------------------- specifications
Init == SimInit /\ ModelInit("mock") /\ ViewInit

\* the Model on either port
InitDriver == SimInit /\ ViewInit /\ \E kind \in PortKinds : ModelInit(kind)

\* the steps of the command path inside the E handler
EHandlerStep ==
    \/ set_estop_store
    \/ update_stop_load0
    \/ update_stop_load1
    \/ update_stop_store

\* the steps of the timer threads started by E frames
ETimerStep ==
    \E r \in Threads :
        \/ _process_estop_delay_load(r)
        \/ _process_estop_delay_store(r)
        \/ _update_stop_pin_state_load0(r)
        \/ _update_stop_pin_state_load1(r)
        \/ _update_stop_pin_state_store(r)

\* the steps of the timer threads started by I frames
ITimerStep ==
    \E r \in Threads :
        \/ _process_interlock_delay_load(r)
        \/ _process_interlock_delay_store(r)

\* E frames, immediate and delayed, against the timer threads they start
NextEStop ==
    \/ open
    \/ close
    \/ \E data \in ImmediateFrames("E") : write_closed(data)
    \/ \E data \in ImmediateFrames("E") : write_E_immediate(data)
    \/ \E data \in DelayedFrames("E") : write_E_delayed(data)
    \/ \E data \in MalformedFrames("E") : write_E_invalid(data)
    \/ EHandlerStep
    \/ read
    \/ ETimerStep
    \/ Tick

SpecEStop == Init /\ [][NextEStop]_vars

\* I frames, immediate and delayed, against the timer threads they start
NextInterlock ==
    \/ open
    \/ close
    \/ \E data \in ImmediateFrames("I") : write_closed(data)
    \/ \E data \in ImmediateFrames("I") : write_I_immediate(data)
    \/ \E data \in DelayedFrames("I") : write_I_delayed(data)
    \/ \E data \in MalformedFrames("I") : write_I_invalid(data)
    \/ set_interlock_store
    \/ read
    \/ ITimerStep
    \/ Tick

SpecInterlock == Init /\ [][NextInterlock]_vars

\* a 9-character frame whose first channel is neither A nor B and whose delay
\* int() does not parse
UnparsableFrames(letter) == {<<letter, "1", "0", "C", "0", "0", "0", "0", "x">>}

\* E and I frames, well formed and not, against the timer threads
NextMalformed ==
    \/ open
    \/ close
    \/ \E data \in {<<"E", "0", "0">>, <<"E", "1", "1">>} : write_E_immediate(data)
    \/ \E data \in {<<"E", "0", "0", "A">> \o Format05d(MaxDelay)} :
          /\ BagCardinality(timers) < MaxTimers
          /\ write_E_delayed(data)
    \/ \E data \in MalformedFrames("E") \cup UnparsableFrames("E") : write_E_invalid(data)
    \/ EHandlerStep
    \/ \E data \in {<<"I", "0", "0">>, <<"I", "1", "1">>} : write_I_immediate(data)
    \/ \E data \in {<<"I", "0", "0", "B">> \o Format05d(MaxDelay)} :
          /\ BagCardinality(timers) < MaxTimers
          /\ write_I_delayed(data)
    \/ \E data \in MalformedFrames("I") \cup UnparsableFrames("I") : write_I_invalid(data)
    \/ set_interlock_store
    \/ read
    \/ ETimerStep
    \/ ITimerStep
    \/ Tick

SpecMalformed == Init /\ [][NextMalformed]_vars

\* every frame kind, one exchange at a time, no delay clause
NextFrames ==
    \/ open
    \/ close
    \/ \E data \in {<<"R">>} : write_R(data)
    \/ \E data \in {<<"H">>} : write_H(data)
    \/ \E data \in ModeFrames : write_M(data)
    \/ \E data \in PowerFrames : write_P(data)
    \/ \E data \in EchoFrames : write_S(data)
    \/ \E data \in UnknownFrames : write_unknown(data)
    \/ \E data \in {<<"R">>, <<"M", "0", "1", "1", "0">>} : write_closed(data)
    \/ \E data \in ImmediateFrames("E") : write_E_immediate(data)
    \/ \E data \in MalformedFrames("E") : write_E_invalid(data)
    \/ update_stop_load0
    \/ update_stop_load1
    \/ update_stop_store
    \/ \E data \in ImmediateFrames("I") : write_I_immediate(data)
    \/ \E data \in MalformedFrames("I") : write_I_invalid(data)
    \/ read

SpecFrames == Init /\ [][NextFrames]_vars

\* the methods of the Model, called one at a time by the GUI thread
NextDriver ==
    \/ connect_to_serial_port
    \/ disconnect_from_serial_port
    \/ write_data_call
    \/ request_output_pin_states
    \/ \E mode_str \in {"Manual", "Off"} : set_mode(mode_str)
    \/ \E mode_bit \in {"A1"} : toggle_mode_bit(mode_bit)
    \/ \E first \in {"A"} : toggle_estop(TRUE, TRUE, first, MaxDelay)
    \/ \E first \in {""} : toggle_interlock(TRUE, TRUE, first, 0)
    \/ toggle_power
    \/ request_heartbeat
    \/ \E echo_string \in EchoStrings : set_echo_string(echo_string)

SpecDriver == InitDriver /\ [][NextDriver]_vars

\* the mode operations of the Model: every mode name, every mode bit, and
\* the status read that refreshes the bits toggle_mode_bit starts from
NextModes ==
    \/ connect_to_serial_port
    \/ disconnect_from_serial_port
    \/ request_output_pin_states
    \/ \E mode_str \in ModeNames : set_mode(mode_str)
    \/ \E mode_bit \in {"A1", "A2", "B1", "B2"} : toggle_mode_bit(mode_bit)

SpecModes == InitDriver /\ [][NextModes]_vars

\* the E-Stop and interlock operations: the button of the E-Stop panel
\* through the Presenter, and the methods of the Model called with every
\* first channel and delay
NextTriggers ==
    \/ connect_to_serial_port
    \/ disconnect_from_serial_port
    \/ request_output_pin_states
    \/ \E trigger_state \in TriggerStates, delay_ms \in DelayEntries :
          toggle_e_stop(trigger_state, delay_ms)
    \/ \E first \in Channels, delay_ms \in DriverDelays :
          toggle_estop(TRUE, TRUE, first, delay_ms)
    \/ \E first \in Channels, delay_ms \in DriverDelays :
          toggle_interlock(TRUE, TRUE, first, delay_ms)

SpecTriggers == InitDriver /\ [][NextTriggers]_vars

\* delayed E and I frames that clear both channels, and status requests, on
\* a port that is opened and closed, against the timer threads of both
\* signals, with at most MaxTimers threads alive at once
NextTimers ==
    \/ open
    \/ close
    \/ \E data \in DelayedFrames("E") :
          /\ At(data, 1) = "0" /\ At(data, 2) = "0"
          /\ BagCardinality(timers) < MaxTimers
          /\ write_E_delayed(data)
    \/ EHandlerStep
    \/ \E data \in DelayedFrames("I") :
          /\ At(data, 1) = "0" /\ At(data, 2) = "0"
          /\ BagCardinality(timers) < MaxTimers
          /\ write_I_delayed(data)
    \/ set_interlock_store
    \/ \E data \in {<<"R">>} : write_R(data)
    \/ read
    \/ ETimerStep
    \/ ITimerStep
    \/ Tick

SpecTimers == Init /\ [][NextTimers]_vars

\* a step of the callback of a timer thread of sig whose transition of
\* channel is pending
CallbackStep(sig, channel) ==
    \E r \in Threads :
        /\ Pending(sig, r)
        /\ r.channel = channel
        /\ \/ _process_estop_delay_load(r)
           \/ _process_estop_delay_store(r)
           \/ _process_interlock_delay_load(r)
           \/ _process_interlock_delay_store(r)

\* time passes, and a started threading.Timer thread is scheduled: it is not a
\* daemon thread and nothing it does waits for another thread
SpecTimersFair ==
    /\ SpecTimers
    /\ WF_vars(Tick)
    /\ \A sig \in {"estop", "interlock"}, channel \in Channels :
          WF_vars(CallbackStep(sig, channel))

\* frames with an unknown letter against both simulators: the command path
\* of mock_serial_port.py with known frames and a delayed I frame around them,
\* and the Model writing to the MockSerialPort of model.py
NextUnknown ==
    \/ open
    \/ close
    \/ \E data \in UnknownFrames : write_unknown(data)
    \/ \E data \in {<<"R">>} : write_R(data)
    \/ \E data \in {<<"M", "1", "0", "0", "1">>} : write_M(data)
    \/ \E data \in {<<"I", "0", "0", "A">> \o Format05d(MaxDelay)} :
          /\ BagCardinality(timers) < 1
          /\ write_I_delayed(data)
    \/ set_interlock_store
    \/ read
    \/ ITimerStep
    \/ Tick
    \/ connect_to_serial_port
    \/ disconnect_from_serial_port
    \/ \E data \in UnknownFrames \cup {<<"R">>} : Sends("write_data", data)
    \/ \E mode_str \in {"Manual"} : set_mode(mode_str)

SpecUnknown == Init /\ [][NextUnknown]_vars

\* what a status read on the serial line may have left in
\* self.output_pin_states before the Model is looked at: a device may report
\* any power pair
LastKnownBanks ==
    {[InitialOutputPinStates EXCEPT !.power = <<a, b>>] : a \in BOOLEAN, b \in BOOLEAN}

\* a Model fresh from __init__ on the MockSerialPort, or a disconnected Model
\* on the line after earlier status reads
InitToggles ==
    /\ SimInit
    /\ ViewInit
    /\ \E kind \in PortKinds :
          /\ serial = NewSerial(kind)
          /\ output_pin_states \in
                (IF kind = "line" THEN LastKnownBanks ELSE {InitialOutputPinStates})
    /\ result = [op |-> "__init__", kind |-> "returned", value |-> "None",
                 data |-> <<>>, write |-> "none", read |-> "none", bytes |-> <<>>]

\* the toggles without a delay clause, with every pair of flags, between
\* status reads, connects and disconnects
NextToggles ==
    \/ connect_to_serial_port
    \/ disconnect_from_serial_port
    \/ request_output_pin_states
    \/ \E a \in BOOLEAN, b \in BOOLEAN : toggle_estop(a, b, "", 0)
    \/ \E a \in BOOLEAN, b \in BOOLEAN : toggle_interlock(a, b, "", 0)
    \/ toggle_power

SpecToggles == InitToggles /\ [][NextToggles]_vars

\* the window: the connect button, the polls View.after runs, the commands
\* of the panels
NextPresenter ==
    \/ \E port_found \in BOOLEAN : Presenter_connect_to_serial_port(port_found)
    \/ Presenter_disconnect_from_serial_port
    \/ update_output_pin_indicators
    \/ \E mode \in {"Manual"} : Presenter_set_mode(mode)
    \/ Presenter_toggle_power
    \/ measure_heartbeat
    \/ \E trigger_state \in {"A and B"} : toggle_e_stop(trigger_state, <<"0">>)

SpecPresenter == InitDriver /\ [][NextPresenter]_vars

\* every value of the pin dictionary
PinBanks == [PinNames -> BOOLEAN \X BOOLEAN]

\* the status codec: a connected Model whose simulator holds any pin
\* dictionary as the input of the encoder
InitCodec ==
    /\ SimInit
    /\ ViewInit
    /\ \E p \in PinBanks :
          serial = [NewSerial("mock") EXCEPT !.is_open = TRUE, !.pin_states = p]
    /\ output_pin_states = InitialOutputPinStates
    /\ result = [op |-> "__init__", kind |-> "returned", value |-> "None",
                 data |-> <<>>, write |-> "none", read |-> "none", bytes |-> <<>>]

\* the status read: the simulator encodes, the Model decodes
NextCodec == request_output_pin_states

SpecCodec == InitCodec /\ [][NextCodec]_vars

\* ------------------------------------------------------------------ claims
\* some thread is inside the E handler or inside an E-Stop callback
EStopMidExecution ==
    \/ cmd.pc \in {"E_store", "E_upd0", "E_upd1", "E_upd_store"}
    \/ \E r \in Threads : r.sig = "estop" /\ r.pc # "waiting"

\* C1: whenever no E handler and no E-Stop callback is mid-execution, stop
\* equals estop on both channels.
C1_StopMirrorsEStop ==
    ~EStopMidExecution => _pin_states.stop = _pin_states.estop

\* C2 (as claimed): the handler of a delayed E frame stores the first channel's
\* commanded bit and leaves the other channel of estop as it is; the other
\* channel takes its commanded bit when the callback stores it, and a callback
\* starts only once its delay has elapsed.
C2_DelayedEStopPattern ==
    [][ /\ set_estop_store =>
             /\ ChannelOf(_pin_states'.estop, FirstChannel(cmd.data))
                  = FrameBit(cmd.data, FirstChannel(cmd.data))
             /\ ChannelOf(_pin_states'.estop, SecondChannel(cmd.data))
                  = ChannelOf(_pin_states.estop, SecondChannel(cmd.data))
        /\ \A r \in Threads :
             /\ _process_estop_delay_load(r) => r.elapsed >= r.delay
             /\ _process_estop_delay_store(r) =>
                  ChannelOf(_pin_states'.estop, r.channel) = r.state
      ]_vars

\* how many transitions of a signal are pending
PendingCount(sig) ==
    LET of == {r \in Threads : Pending(sig, r)}
    IN  IF of = {} THEN 0 ELSE BagCardinality([r \in of |-> timers[r]])

EStopCallbackStores == \E r \in Threads : _process_estop_delay_store(r)

\* C3 (as claimed): a pending transition that a newer E frame has superseded
\* never changes estop once that frame has been applied.
C3_SupersededNeverFires ==
    [][\A r \in Threads :
          (_process_estop_delay_store(r) /\ r.superseded) =>
              _pin_states'.estop = _pin_states.estop]_vars

\* C3 (amended): a newer E frame does not cancel a pending transition.  Only
\* the store of a callback ends a pending transition, a delayed frame adds one
\* to those already pending, and the store of a callback, superseded or not,
\* sets its channel of estop to its scheduled value.
C3_PendingTransitionStillFires ==
    [][ /\ IF EStopCallbackStores
           THEN PendingCount("estop")' = PendingCount("estop") - 1
           ELSE IF set_estop_store
           THEN PendingCount("estop")' = PendingCount("estop") + 1
           ELSE PendingCount("estop")' = PendingCount("estop")
        /\ \A r \in Threads :
             _process_estop_delay_store(r) =>
                 ChannelOf(_pin_states'.estop, r.channel) = r.state
      ]_vars

\* C3 witness: E00 was applied while a transition of channel B to 1 was
\* pending; the transition has fired since and no timer is left.
C3_SupersededFired ==
    /\ cmd.pc = "written"
    /\ cmd.data = <<"E", "0", "0">>
    /\ _pin_states.estop = <<FALSE, TRUE>>
    /\ Alive("estop") = 0

\* the pins, one excepted, are the same before and after a step
SameExcept(name) ==
    \A n \in PinNames \ {name} : _pin_states'[n] = _pin_states[n]

AnyInterlockWrite ==
    \/ \E data \in ImmediateFrames("I") \cup DelayedFrames("I") \cup MalformedFrames("I") :
          write_I_immediate(data) \/ write_I_delayed(data) \/ write_I_invalid(data)
    \/ set_interlock_store

ServesStatus == read /\ is_open /\ ~_expect_ok /\ _read_requested

\* C6 (as claimed): serving a status request changes no pin.
C6_StatusReadMutatesNothing ==
    [][ServesStatus => _pin_states' = _pin_states]_vars

\* C6 (amended): serving a status request returns the pins as they were when
\* it was served and changes no pin other than heartbeat.
C6_StatusReadKeepsAllButHeartbeat ==
    [][ServesStatus =>
          /\ SameExcept("heartbeat")
          /\ response' = EncodePins(_pin_states)]_vars

\* C6 witness: a status response has been served and heartbeat is no longer
\* what the response reports.
C6_HeartbeatChangedByStatusRead ==
    /\ Len(response) = 19
    /\ cmd.pc = "idle"
    /\ <<At(response, 7) = "1", At(response, 16) = "1">> # _pin_states.heartbeat

\* C8: M<a1><a2><b1><b2> sets mode1 = (a1, b1) and mode2 = (a2, b2) whatever
\* they were, and changes no other pin.
C8_SetMode ==
    [][\A data \in ModeFrames :
          write_M(data) =>
              /\ _pin_states'.mode1 = <<data[2] = "1", data[4] = "1">>
              /\ _pin_states'.mode2 = <<data[3] = "1", data[5] = "1">>
              /\ \A n \in PinNames \ {"mode1", "mode2"} :
                    _pin_states'[n] = _pin_states[n]]_vars

\* C8 witness: M1001 applied.
C8_ManualApplied ==
    /\ cmd.pc = "written"
    /\ cmd.data = <<"M", "1", "0", "0", "1">>
    /\ _pin_states.mode1 = <<TRUE, FALSE>>
    /\ _pin_states.mode2 = <<FALSE, TRUE>>

\* C9: P<on> sets power to (on, on) from any state and changes no other pin;
\* applied where power already is (on, on), as a second P<on> in a row is, it
\* changes nothing.
C9_SetPowerIdempotent ==
    [][\A data \in PowerFrames :
          write_P(data) =>
              /\ _pin_states'.power = <<data[2] = "1", data[2] = "1">>
              /\ SameExcept("power")
              /\ (_pin_states.power = <<data[2] = "1", data[2] = "1">>
                     => _pin_states' = _pin_states)]_vars

\* C9 witness: P0 applied.
C9_PowerOffApplied ==
    /\ cmd.pc = "written"
    /\ cmd.data = <<"P", "0">>
    /\ _pin_states.power = <<FALSE, FALSE>>

\* the command letter of the frame the command path has written
Letter == At(Strip(cmd.data), 0)

\* C10: the read that follows a well-formed M, E, I, P or S frame returns OK
\* and leaves no acknowledgement pending; the read that follows R or H does
\* not return OK.
C10_AckPerCommand ==
    [][read =>
          /\ Letter \in {"M", "E", "I", "P", "S"} =>
                (response' = OK_RESPONSE /\ ~_expect_ok')
          /\ Letter \in {"R", "H"} => response' # OK_RESPONSE]_vars

\* C10 witness: the exchange of an S frame has ended with OK.
C10_AckRead ==
    /\ cmd.pc = "idle"
    /\ response = OK_RESPONSE
    /\ ~_expect_ok

\* the methods of the Model that end with return self.write_data(data)
WriteDataOps ==
    {"write_data", "set_mode", "toggle_mode_bit", "toggle_estop",
     "toggle_interlock", "toggle_power", "set_echo_string"}

\* the last call of the Model went through write_data
WriteDataCalled == result.op \in WriteDataOps /\ result.data # <<>>

\* read_response_OK got bytes from read() and decoded them: its local response
ResponseDecoded ==
    result.write = "none" /\ result.read = "none" /\ Decodable(result.bytes)

ReportsFailure ==
    /\ result.kind = "returned"
    /\ \/ result.op \in WriteDataOps /\ result.value = "False"
       \/ result.op = "request_output_pin_states" /\ result.value = "{}"
       \/ result.op = "request_heartbeat" /\ result.value = "None"

\* C5 (as claimed): after a Model operation has reported failure the serial
\* port is closed.
C5_FailureClosesPort == ReportsFailure => ~serial.is_open

\* request_output_pin_states got bytes from read(): what it decodes
StatusRead ==
    /\ result.op = "request_output_pin_states"
    /\ result.write = "none"
    /\ result.read = "none"

\* a response that is not a status frame: a wrong length, no A at offset 0,
\* no B at offset 9
MalformedStatus(text) ==
    Len(text) # 18 \/ At(text, 0) # "A" \/ At(text, 9) # "B"

\* C11 (as claimed): request_output_pin_states returns the empty dictionary,
\* and raises nothing, for every response that is not a status frame.
C11_MalformedStatusIsEmpty ==
    (StatusRead /\ MalformedStatus(Strip(result.bytes))) =>
        (result.kind = "returned" /\ result.value = "{}")

\* C12 (as claimed): set_mode with a name that is not a mode sends no frame,
\* leaves the port and its simulator as they are, and returns: it reports the
\* rejection by a value and raises nothing.
C12_UnknownModeReturnsError ==
    [][(\E mode_str \in {"Off"} : set_mode(mode_str)) =>
          /\ result'.data = <<>>
          /\ serial' = serial
          /\ result'.kind = "returned"]_vars

\* the frame the claim gives for each mode name
C13_Frame(mode_str) ==
    CASE mode_str = "Automatic" -> <<"M", "0", "1", "1", "0">>
      [] mode_str = "Stop"      -> <<"M", "1", "0", "1", "0">>
      [] mode_str = "Manual"    -> <<"M", "1", "0", "0", "1">>
      [] mode_str = "Mute"      -> <<"M", "0", "1", "0", "1">>

\* C13: set_mode of a mode name on a Model connected to its simulator writes
\* the frame of that name (Automatic M0110, Stop M1010, Manual M1001, Mute
\* M0101); afterwards the simulator's mode bits A1, A2, B1, B2 are the four
\* bits of the frame, the response read is OK and set_mode has returned True.
C13_SetModeEndToEnd ==
    [][\A mode_str \in ModeNames :
          (set_mode(mode_str) /\ serial.kind = "mock" /\ serial.is_open) =>
              LET frame == C13_Frame(mode_str)
              IN  /\ result'.data = frame
                  /\ serial'.pin_states.mode1 = <<Bit(frame[2]), Bit(frame[4])>>
                  /\ serial'.pin_states.mode2 = <<Bit(frame[3]), Bit(frame[5])>>
                  /\ result'.bytes = OK_RESPONSE
                  /\ result'.kind = "returned"
                  /\ result'.value = "True"]_vars

\* C13 witness: set_mode("Manual") has returned True on the connected
\* simulator, whose mode bits are A1 = 1, A2 = 0, B1 = 0, B2 = 1.
C13_ManualSet ==
    /\ serial.kind = "mock"
    /\ serial.is_open
    /\ result.op = "set_mode"
    /\ result.data = <<"M", "1", "0", "0", "1">>
    /\ result.value = "True"
    /\ serial.pin_states.mode1 = <<TRUE, FALSE>>
    /\ serial.pin_states.mode2 = <<FALSE, TRUE>>

\* the delay field of a delayed frame: the five bytes after the first channel
DelayField(data) == Slice(data, 4, 9)

\* C14 (as claimed): a delayed E or I frame the Model builds for a delay_ms of
\* 0..99999 carries delay_ms as five decimal digits, zero-padded; for a
\* delay_ms above 99999 no frame is sent.
C14_DelayFieldOrRejected ==
    [][\A first \in Channels, delay_ms \in DriverDelays :
          ( \/ toggle_estop(TRUE, TRUE, first, delay_ms)
            \/ toggle_interlock(TRUE, TRUE, first, delay_ms) ) =>
              IF delay_ms <= DELAY_MAX
              THEN /\ Len(result'.data) = 9
                   /\ AllDigits(DelayField(result'.data))
                   /\ ParseInt(DelayField(result'.data)) = delay_ms
              ELSE result'.data = <<>>]_vars

\* C15 (as claimed): the E-Stop operation with trigger pattern "B then A" and
\* delay 250 on a connected driver ends normally with the frame E11B00250
\* written.
C15_BThenASendsFrame ==
    [][(serial.is_open /\ toggle_e_stop("B then A", <<"2", "5", "0">>)) =>
          /\ result'.kind = "returned"
          /\ result'.data = <<"E", "1", "1", "B", "0", "0", "2", "5", "0">>]_vars

\* C16: the pin dictionary request_output_pin_states parses from the status
\* frame the simulator encoded is the pin dictionary the simulator encoded,
\* all eight signals and both channels, for every pin dictionary.  (The
\* simulator of model.py leaves its pin dictionary as it is when it encodes.)
C16_StatusRoundTrip ==
    result.op = "request_output_pin_states" =>
        /\ result.kind = "returned"
        /\ result.value = "pin_states"
        /\ result.bytes = EncodePins(serial.pin_states)
        /\ ParsePins(Strip(result.bytes)) = serial.pin_states
        /\ output_pin_states = serial.pin_states

\* C16 witness: a pin dictionary with teach and heartbeat set on one channel
\* each, which no default holds, has been encoded and decoded.
C16_TeachAndHeartbeatDecoded ==
    /\ result.op = "request_output_pin_states"
    /\ result.value = "pin_states"
    /\ serial.pin_states.teach = <<TRUE, FALSE>>
    /\ serial.pin_states.heartbeat = <<FALSE, TRUE>>
    /\ output_pin_states = serial.pin_states

\* C17 (as claimed): a status read replaces the last-known pin dictionary,
\* and logs "Output pin states changed", only when a pin other than heartbeat
\* differs from the last-known dictionary.
C17_HeartbeatAloneNotNotified ==
    [][(request_output_pin_states /\ output_pin_states' # output_pin_states) =>
          \E name \in PinNames \ {"heartbeat"} :
              output_pin_states'[name] # output_pin_states[name]]_vars

\* C18: connect_to_serial_port raises nothing and returns True or False; when
\* it has returned True the port is open, when it has returned False (open()
\* raised) the port is closed.
C18_ConnectTrueIffOpened ==
    result.op = "connect_to_serial_port" =>
        /\ result.kind = "returned"
        /\ result.value \in {"True", "False"}
        /\ result.value = "True" => serial.is_open
        /\ result.value = "False" => ~serial.is_open

\* C18 witness: on the line open() raised; connect_to_serial_port returned
\* False and the port is closed.
C18_OpenFailed ==
    /\ serial.kind = "line"
    /\ result.op = "connect_to_serial_port"
    /\ result.kind = "returned"
    /\ result.value = "False"
    /\ ~serial.is_open

\* the handler of a delayed frame stores the first channel and starts a timer
StartsTimer == set_estop_store \/ set_interlock_store

\* the callback of a timer thread of sig stores its transition of channel
CallbackStores(sig, channel) ==
    \E r \in Threads :
        /\ r.sig = sig
        /\ r.channel = channel
        /\ \/ _process_estop_delay_store(r)
           \/ _process_interlock_delay_store(r)

\* a callback starts with its interval not yet passed
CallbackStartsEarly ==
    \E r \in Threads :
        /\ r.elapsed < r.delay
        /\ \/ _process_estop_delay_load(r)
           \/ _process_interlock_delay_load(r)

\* the transitions scheduled and not yet stored, of both signals
AllPending == PendingCount("estop") + PendingCount("interlock")

\* the handler of a delayed frame of sig starts the timer for channel
StartsTimerFor(sig, channel) ==
    /\ \/ sig = "estop" /\ set_estop_store
       \/ sig = "interlock" /\ set_interlock_store
    /\ SecondChannel(cmd.data) = channel

\* C19: the handler of an accepted delayed E or I frame starts exactly one
\* timer thread, and nothing else starts one (no callback is run again); no
\* callback starts before its interval has passed; a scheduled transition
\* stops being pending only by its callback storing it, one transition per
\* store; and every scheduled transition is stored in the end: for each
\* signal and channel, unless frames go on scheduling transitions for ever,
\* again and again none is pending.
C19_CallbackExactlyOnce ==
    /\ [][/\ StartsTimer =>
                /\ BagCardinality(timers') = BagCardinality(timers) + 1
                /\ AllPending' = AllPending + 1
          /\ ~StartsTimer =>
                /\ BagCardinality(timers') <= BagCardinality(timers)
                /\ AllPending' <= AllPending
                /\ AllPending' >= AllPending - 1
          /\ ~CallbackStartsEarly
          /\ (\E sig \in {"estop", "interlock"}, channel \in Channels :
                 CallbackStores(sig, channel)) => AllPending' = AllPending - 1
          /\ AllPending' < AllPending =>
                \E sig \in {"estop", "interlock"}, channel \in Channels :
                    CallbackStores(sig, channel)]_vars
    /\ \A sig \in {"estop", "interlock"}, channel \in Channels :
          \/ []<>(~\E r \in Threads : Pending(sig, r) /\ r.channel = channel)
          \/ []<><<StartsTimerFor(sig, channel)>>_vars

\* C19 witness: the callback of a frame with a delay has run (its thread is
\* past its store) after the delay had passed, and nothing is pending.
C19_DelayedCallbackRan ==
    /\ \E r \in Threads : r.pc \in {"upd0", "upd1", "upd_store"}
    /\ _pin_states.estop = <<FALSE, FALSE>>
    /\ AllPending = 0

\* read() answers a status request on the open port
ReadsStatus == read /\ is_open /\ ~_expect_ok /\ _read_requested

\* a transition of sig for channel is scheduled and not yet stored
PendingFor(sig, channel) ==
    \E r \in Threads : Pending(sig, r) /\ r.channel = channel

\* C20: closing the port leaves the timer threads and the pin bank as they
\* are, and so does opening it again; a callback that stores its transition
\* while the port is closed sets its channel of the pin bank to the scheduled
\* state and leaves the port closed; a status read on the open port returns
\* the encoding of the pin bank as it then is; and a transition pending while
\* the port is closed is stored in the end unless the port is opened first
\* (it is then stored all the same, by C19).
C20_CloseKeepsPending ==
    /\ [][/\ is_open' # is_open =>
                /\ timers' = timers
                /\ _pin_states' = _pin_states
          /\ \A r \in Threads :
                (/\ ~is_open
                 /\ \/ _process_estop_delay_store(r)
                    \/ _process_interlock_delay_store(r)) =>
                    /\ ChannelOf(_pin_states'[r.sig], r.channel) = r.state
                    /\ ~is_open'
          /\ ReadsStatus => response' = EncodePins(_pin_states)]_vars
    /\ \A sig \in {"estop", "interlock"}, channel \in Channels :
          (~is_open /\ PendingFor(sig, channel))
              ~> (is_open \/ ~PendingFor(sig, channel))

\* C20 witness: the port is closed while a timer started by a delayed frame
\* is still waiting for its interval, its transition not yet in the pin bank.
C20_ClosedWhilePending ==
    /\ ~is_open
    /\ \E r \in Threads :
          /\ r.pc = "waiting"
          /\ r.elapsed < r.delay
          /\ ChannelOf(_pin_states[r.sig], r.channel) # r.state

\* C21 (as claimed): the store of a timer callback for a channel of estop or
\* interlock changes that channel only: the other channel of the signal keeps
\* the value it had just before the store, which is the value the command
\* path last wrote there.
C21_CallbackKeepsOtherChannel ==
    [][\A r \in Threads :
          (_process_estop_delay_store(r) \/ _process_interlock_delay_store(r)) =>
              ChannelOf(_pin_states'[r.sig], OtherChannel(r.channel))
                = ChannelOf(_pin_states[r.sig], OtherChannel(r.channel))]_vars

\* how many responses the simulator of model.py holds pending
PendingResponses(s) ==
    (IF s.expect_ok THEN 1 ELSE 0) + (IF s.read_requested THEN 1 ELSE 0)
        + (IF s.heartbeat_requested THEN 1 ELSE 0)

\* C22: against the simulator the Model instantiates, no response is pending
\* when an operation of the driver has returned (or before the first one),
\* the frame an operation writes arms at most one response, and an
\* operation whose frame armed a response has read that response before it
\* returns.
C22_RequestThenResponse ==
    /\ [](serial.kind = "mock" => PendingResponses(serial) = 0)
    /\ [][(serial.kind = "mock" /\ result'.data # <<>>) =>
             /\ \A env \in Exchanges("mock") :
                   PendingResponses(serial_write(serial, result'.data, env).s) <= 1
             /\ (/\ serial.is_open
                 /\ result'.kind = "returned"
                 /\ \E env \in Exchanges("mock") :
                       PendingResponses(serial_write(serial, result'.data, env).s) = 1) =>
                   result'.bytes # <<>>]_vars

\* C22 witness: a heartbeat request has returned its reading from the
\* simulator, which holds no pending response.
C22_HeartbeatServed ==
    /\ serial.kind = "mock"
    /\ result.op = "request_heartbeat"
    /\ result.value = "heartbeat_hz"
    /\ result.bytes # <<>>
    /\ PendingResponses(serial) = 0

\* the command path of mock_serial_port.py takes a frame with an unknown letter
SimTakesUnknown == \E data \in UnknownFrames : write_unknown(data)

\* the Model hands a frame with an unknown letter to the open MockSerialPort
\* of model.py
MockTakesUnknown ==
    /\ serial.kind = "mock"
    /\ serial.is_open
    /\ \E data \in UnknownFrames : Sends("write_data", data)

\* what an unknown frame must leave alone in the simulator of
\* mock_serial_port.py: the pin bank, the timers, the three response flags
SimUntouched ==
    UNCHANGED <<_pin_states, timers, _expect_ok, _read_requested, _heartbeat_requested>>

\* the same for the MockSerialPort of model.py, which has no timers
MockUntouched ==
    /\ serial'.pin_states = serial.pin_states
    /\ PendingResponses(serial') = PendingResponses(serial)

\* C23 (as claimed): each simulator writes a frame with an unknown letter to
\* sys.stdout and reports it as an error, and the frame changes no pin, starts
\* no timer and arms no response.
C23_UnknownFrameIsAnError ==
    [][/\ SimTakesUnknown =>
             /\ stdout' # <<>>
             /\ raised' = "SerialException"
             /\ SimUntouched
       /\ MockTakesUnknown =>
             /\ mock_stdout(serial, result'.data) # <<>>
             /\ result'.write \in SerialExceptions
             /\ MockUntouched]_vars

\* C23 (amended): each simulator writes a frame with an unknown letter to
\* sys.stdout, and the frame changes no pin, starts no timer and arms no
\* response; the simulator of mock_serial_port.py raises SerialException as
\* well, the MockSerialPort of model.py raises nothing, so that the Model
\* goes on to read a response.
C23_UnknownFrameIsEchoed ==
    [][/\ \A data \in UnknownFrames :
             write_unknown(data) =>
                /\ stdout' = data
                /\ raised' = "SerialException"
                /\ SimUntouched
       /\ MockTakesUnknown =>
             /\ mock_stdout(serial, result'.data) = result'.data
             /\ result'.write = "none"
             /\ MockUntouched]_vars

\* C23 witness: both simulators have taken a frame with an unknown letter:
\* the one of mock_serial_port.py has raised with the frame on sys.stdout and
\* a timer still waiting, the Model's write_data has ended without a write
\* error.
C23_UnknownFrameTaken ==
    /\ stdout \in UnknownFrames
    /\ raised = "SerialException"
    /\ \E r \in Threads : r.pc = "waiting"
    /\ result.op = "write_data"
    /\ result.data \in UnknownFrames
    /\ result.write = "none"

\* read() answers a heartbeat request on the open port
ServesHeartbeat ==
    read /\ is_open /\ ~_expect_ok /\ ~_read_requested /\ _heartbeat_requested

\* an H frame is written to the open port
WritesHeartbeatRequest == \E data \in {<<"H">>} : write_H(data)

\* C24: neither the write of an H frame nor the read that answers it changes
\* an entry of the pin bank; the answer is A, five digits, B, five digits,
\* generated for the answer alone: the heartbeat pins keep their two bits.
C24_HeartbeatReadMutatesNothing ==
    [][/\ WritesHeartbeatRequest => _pin_states' = _pin_states
       /\ ServesHeartbeat =>
             /\ _pin_states' = _pin_states
             /\ \E a \in HeartbeatValues, b \in HeartbeatValues :
                   response' = EncodeHeartbeatValues(a, b)]_vars

\* C24 witness: a heartbeat reading has been returned while the pin bank
\* holds values set by earlier frames, its heartbeat pins high.
C24_HeartbeatServedPinsKept ==
    /\ Len(response) = 12
    /\ At(response, 0) = "A"
    /\ cmd.pc = "idle"
    /\ _pin_states.heartbeat = <<TRUE, TRUE>>
    /\ _pin_states.mode1 # DefaultPinStates.mode1

\* request_heartbeat has ended after a write the open MockSerialPort of
\* model.py took
HeartbeatRequested ==
    /\ serial.kind = "mock"
    /\ result.op = "request_heartbeat"
    /\ result.write = "none"

\* C25: a heartbeat request the simulator took returns a reading; the
\* response it decoded is A, five digits, B, five digits of two numbers the
\* simulator drew in 0..99999, and the reading is that pair of numbers.
C25_HeartbeatEndToEnd ==
    HeartbeatRequested =>
        /\ result.kind = "returned"
        /\ result.value = "heartbeat_hz"
        /\ \E hz \in HeartbeatDraws :
              /\ result.bytes = EncodeHeartbeatValues(hz[1], hz[2])
              /\ HeartbeatReading(Strip(result.bytes)) = hz
        /\ \A i \in 1..2 :
              /\ HeartbeatReading(Strip(result.bytes))[i] >= HEARTBEAT_MIN
              /\ HeartbeatReading(Strip(result.bytes))[i] <= HEARTBEAT_MAX

\* C25 witness: a reading with the largest value on channel A and a small
\* one, padded with zeros in the response, on channel B.
C25_ReadingAtBothEnds ==
    /\ HeartbeatRequested
    /\ result.value = "heartbeat_hz"
    /\ HeartbeatReading(Strip(result.bytes)) = <<HEARTBEAT_MAX, HEARTBEAT_HIGH>>

\* the four mode bits A1, A2, B1, B2 the simulator of model.py holds
ControllerModeBits(s) ==
    <<s.pin_states.mode1[1], s.pin_states.mode2[1],
      s.pin_states.mode1[2], s.pin_states.mode2[2]>>

ModeBitIndex(mode_bit) ==
    CASE mode_bit = "A1" -> 1 [] mode_bit = "A2" -> 2
      [] mode_bit = "B1" -> 3 [] mode_bit = "B2" -> 4

\* C26 (as claimed): a toggle_mode_bit that returns True has inverted the
\* named mode bit of the simulator and left its three other mode bits as the
\* simulator held them before the call, whatever the Model last read.
C26_ToggleInvertsOneBit ==
    [][\A mode_bit \in {"A1", "A2", "B1", "B2"} :
          (/\ serial.kind = "mock"
           /\ toggle_mode_bit(mode_bit)
           /\ result'.value = "True") =>
              ControllerModeBits(serial') =
                 [ControllerModeBits(serial) EXCEPT ![ModeBitIndex(mode_bit)] = ~@]]_vars

\* A, five digits, B, five digits
WellFormedHeartbeat(text) ==
    /\ Len(text) = 12
    /\ At(text, 0) = "A"
    /\ At(text, 6) = "B"
    /\ AllDigits(Slice(text, 1, 6))
    /\ AllDigits(Slice(text, 7, 12))

\* C27 (as claimed): whatever response request_heartbeat has read, it returns:
\* a reading when the response, stripped, is A, five digits, B, five digits,
\* and None for every other response.
C27_HeartbeatDecodeTotal ==
    (/\ result.op = "request_heartbeat"
     /\ result.write = "none"
     /\ result.read = "none") =>
        /\ result.kind = "returned"
        /\ result.value = "heartbeat_hz" <=> WellFormedHeartbeat(Strip(result.bytes))
        /\ result.value # "heartbeat_hz" => result.value = "None"

\* C28 (as claimed): when the MockSerialPort of model.py has acknowledged an
\* E frame of the Model, its stop pair equals its estop pair.
C28_MockStopMirrorsEStop ==
    (/\ serial.kind = "mock"
     /\ result.op = "toggle_estop"
     /\ result.value = "True") =>
        serial.pin_states.stop = serial.pin_states.estop

\* the signal an E or I frame is about
SignalOf(data) == IF At(data, 0) = "E" THEN "estop" ELSE "interlock"

\* C29 (as claimed): when the MockSerialPort of model.py acknowledges a
\* 9-character E or I frame of the Model, the frame's first channel has its
\* commanded bit and the other channel of the signal is as it was before the
\* frame was written (it is to change after the delay).
C29_MockHonoursDelay ==
    [][(/\ serial.kind = "mock"
        /\ result'.op \in {"toggle_estop", "toggle_interlock"}
        /\ result'.value = "True"
        /\ Len(result'.data) = 9) =>
           LET data == result'.data
               sig == SignalOf(data)
           IN  /\ ChannelOf(serial'.pin_states[sig], FirstChannel(data))
                    = FrameBit(data, FirstChannel(data))
               /\ ChannelOf(serial'.pin_states[sig], SecondChannel(data))
                    = ChannelOf(serial.pin_states[sig], SecondChannel(data))]_vars

\* no timer thread is left and the command path is in no handler
Quiet == timers = EmptyBag /\ cmd.pc \in {"idle", "written"}

\* the frames of SpecTimers command 0 on both channels: a pair that is
\* <<FALSE, FALSE>> has had its delayed frame applied, both channels
Applied(pair) == pair = <<FALSE, FALSE>>

\* neither callback alters the other signal
C30_CallbacksKeepOtherSignal ==
    [][/\ ETimerStep => _pin_states'.interlock = _pin_states.interlock
       /\ ITimerStep =>
             /\ _pin_states'.estop = _pin_states.estop
             /\ _pin_states'.stop = _pin_states.stop]_vars

\* both fire: again and again no transition is pending, unless frames keep
\* starting timers for ever
C30_BothFire == []<>(AllPending = 0) \/ []<><<StartsTimer>>_vars

\* estop and interlock end at the values their frames commanded
C30_SignalsEndAsCommanded ==
    [](Quiet => /\ _pin_states.estop \in {DefaultPinStates.estop, <<FALSE, FALSE>>}
                /\ _pin_states.interlock \in {DefaultPinStates.interlock, <<FALSE, FALSE>>})

\* C30 (as claimed): with a delayed E-Stop and a delayed Interlock transition
\* pending together, neither callback alters the other signal, both fire, and
\* in whatever order they have fired, once both frames are applied and no
\* thread is left, estop and stop are at the E frame's values and interlock at
\* the I frame's.
C30_BothFireSameResult ==
    /\ C30_CallbacksKeepOtherSignal
    /\ C30_BothFire
    /\ C30_SignalsEndAsCommanded
    /\ [](( /\ Quiet
            /\ Applied(_pin_states.estop)
            /\ Applied(_pin_states.interlock)) =>
               _pin_states.stop = _pin_states.estop)

\* a pair with the channels inverted whose flag is set
Inverted(pair, toggle_a, toggle_b) ==
    <<IF toggle_a THEN ~pair[1] ELSE pair[1], IF toggle_b THEN ~pair[2] ELSE pair[2]>>

\* C31 (as claimed): a toggle_estop or toggle_interlock without a delay
\* clause that returns True has inverted, in the simulator, the channels of
\* the signal whose flag is set and left the others as the simulator held
\* them before the call, whatever the Model last read.
C31_ToggleInvertsFlagged ==
    [][\A a \in BOOLEAN, b \in BOOLEAN :
          /\ (/\ serial.kind = "mock"
              /\ toggle_estop(a, b, "", 0)
              /\ result'.value = "True") =>
                 serial'.pin_states.estop = Inverted(serial.pin_states.estop, a, b)
          /\ (/\ serial.kind = "mock"
              /\ toggle_interlock(a, b, "", 0)
              /\ result'.value = "True") =>
                 serial'.pin_states.interlock
                    = Inverted(serial.pin_states.interlock, a, b)]_vars

\* C32: toggle_power sends P0 when either channel of power is on in the pin
\* dictionary the driver last read and P1 only when both are off; when the
\* call succeeds on the simulated controller, the controller's power pair is
\* (FALSE, FALSE) in the first case and (TRUE, TRUE) in the second.
C32_TogglePowerFromLastKnown ==
    [][(result'.op = "toggle_power") =>
          LET power == output_pin_states.power
              on == power[1] \/ power[2]
          IN  /\ result'.data = (IF on THEN <<"P", "0">> ELSE <<"P", "1">>)
              /\ (serial.kind = "mock" /\ result'.value = "True") =>
                    serial'.pin_states.power = (IF on THEN <<FALSE, FALSE>> ELSE <<TRUE, TRUE>>)]_vars

\* a successful toggle_power that switched the simulated controller off, the
\* driver having read the power on
C32_PowerSwitchedOff ==
    /\ result.op = "toggle_power"
    /\ result.value = "True"
    /\ result.data = <<"P", "0">>
    /\ serial.kind = "mock"
    /\ output_pin_states.power = <<TRUE, TRUE>>
    /\ serial.pin_states.power = <<FALSE, FALSE>>

NotWellFormed == UNION {MalformedFrames(l) \cup UnparsableFrames(l) : l \in {"E", "I"}}

\* C33: an E or I frame of a length other than 3 or 9, or of length 9 with a
\* first channel that is neither A nor B, is taken by no accepting handler; the
\* write raises, and the pins (estop, interlock and stop among them), the
\* timer threads and the pending acknowledgement are as they were before it.
C33_MalformedFrameChangesNothing ==
    [][\A data \in NotWellFormed :
          /\ ~(write_E_immediate(data) \/ write_E_delayed(data))
          /\ ~(write_I_immediate(data) \/ write_I_delayed(data))
          /\ (write_E_invalid(data) \/ write_I_invalid(data)) =>
                /\ raised' \in {"SerialException", "ValueError"}
                /\ UNCHANGED <<_pin_states, timers, _expect_ok>>]_vars

\* a frame was rejected while a transition was pending and no acknowledgement
\* was owed: the thread is still there, nothing is owed
C33_RejectedWhilePending ==
    /\ is_open
    /\ raised = "SerialException"
    /\ cmd.pc = "idle"
    /\ ~_expect_ok
    /\ \E r \in Threads : Pending("estop", r)
    /\ _pin_states.interlock = <<FALSE, FALSE>>

\* C36: self.output_pin_states changes only in a call of
\* request_output_pin_states that returns a pin dictionary, and after such a
\* call it is the dictionary decoded from the response; a status read that
\* fails (the port raises, a marker is wrong, the response is cut short), the
\* set-commands, connect and disconnect leave it as it was.
C36_LastKnownOnlyByStatusRead ==
    [][LET read_ok == /\ result'.op = "request_output_pin_states"
                      /\ result'.value = "pin_states"
       IN  /\ (output_pin_states' # output_pin_states) => read_ok
           /\ read_ok => output_pin_states' = ParsePins(Strip(result'.bytes))]_vars

\* the last-known dictionary was replaced by a status read, and a status read
\* that failed afterwards has left it in place
C36_KeptAcrossFailedRead ==
    /\ result.op = "request_output_pin_states"
    /\ result.value # "pin_states"
    /\ output_pin_states # InitialOutputPinStates

\* C34 (as claimed): never more than one update_output_pin_indicators
\* callback is scheduled, whatever the sequence of connect, disconnect,
\* failed operation and reconnect.
C34_AtMostOnePollScheduled == scheduled <= 1

\* C35: between two methods of the Presenter the label of the connection
\* panel reads "Connected" exactly when the port of the Model is open.
C35_StatusAgreesWithPort == (lbl_status = "Connected") <=> serial.is_open

\* a heartbeat request failed on a port the Model left open, and the
\* Presenter has closed it and set the label
C35_FailureShownAndClosed ==
    /\ result.op = "Presenter.measure_heartbeat"
    /\ result.value = "None"
    /\ result.read = "SerialException"
    /\ ~serial.is_open
    /\ lbl_status = "Disconnected"

\* the step ends a poll that returned a pin dictionary
PollSucceeds ==
    /\ result'.op = "Presenter.update_output_pin_indicators"
    /\ result'.kind = "returned"
    /\ result'.value = "pin_states"

\* the last method that ran was a poll that did not return a pin dictionary
PollFailed ==
    /\ result.op = "Presenter.update_output_pin_indicators"
    /\ ~(result.kind = "returned" /\ result.value = "pin_states")

\* the step is a connect that succeeds
ConnectSucceeds ==
    /\ result'.op = "Presenter.connect_to_serial_port"
    /\ result'.value = "True"

\* the step hands a frame to a port that takes it
FrameWritten ==
    /\ serial.is_open
    /\ result'.data # <<>>
    /\ result'.write = "none"

\* the step schedules no poll and writes no frame
PollingAtRest == scheduled' <= scheduled /\ ~FrameWritten

\* C37 (as claimed): once a poll has failed or the user has disconnected, no
\* poll is scheduled and no frame is written until a connect succeeds; a poll
\* that succeeds uses up its callback and schedules exactly one.
C37_PollingStopsAfterFailure ==
    [][/\ (PollFailed \/ lbl_status = "Disconnected") => (ConnectSucceeds \/ PollingAtRest)
       /\ PollSucceeds => scheduled' = (scheduled - 1) + 1]_vars

\* C37, the part that holds: while the panel shows "Disconnected", which it
\* does from a disconnect or a reported failure until a connect succeeds, no
\* poll is scheduled and no frame is written; a poll that succeeds schedules
\* exactly one.
C37_PollingStopsWhileDisconnected ==
    [][/\ (lbl_status = "Disconnected") => (ConnectSucceeds \/ PollingAtRest)
       /\ PollSucceeds => scheduled' = (scheduled - 1) + 1]_vars

\* a poll ended with an exception, the port is still open, and the command
\* that follows has written its frame
C37_FrameAfterFailedPoll ==
    /\ result.op = "Presenter.toggle_power"
    /\ result.value = "True"
    /\ lbl_status = "Connected"
    /\ scheduled = 0

====
